---- MODULE Spec2Model ----
(***************************************************************************)
(* A model of the S3 bucket service of cluster-api-provider-aws            *)
(* (pkg/cloud/services/s3): bucket reconciliation and deletion, bootstrap  *)
(* object create/delete, bucket-name derivation and bucket-policy          *)
(* synthesis.  Go strings are sequences of one-character strings, so that  *)
(* len(), concatenation and character classes are those of the code.       *)
(* The S3 and STS clients are the environment: every response of a client  *)
(* call is an input of the operation that makes the call.                  *)
(***************************************************************************)
EXTENDS Integers, Sequences, FiniteSets, TLC

VARIABLES
    scope,   \* scope.S3Scope: Bucket() spec, Namespace(), KubernetesClusterName()
    store,   \* the object store behind S3Client: bucket name -> [policy, objects]
    op,      \* the operation that ran last and its arguments
    calls,   \* the client calls the last operation made, in order, with responses
    err,     \* the error the last operation returned (Nil for success)
    out,     \* the string the last operation returned ("" when none)
    last,    \* history: what the operation right before op did, if it succeeded
    procs,   \* concurrent calls: each call's position, locals and result
    factory  \* the template backend shared by concurrent calls: its FilePath

vars == <<scope, store, op, calls, err, out, last, procs, factory>>

----------------------------------------------------------------------------
(* Bounds of the model *)

\* the largest number of entries of NodesIAMInstanceProfiles that is drawn
MaxNodes == 2

----------------------------------------------------------------------------
(* Strings *)

EmptyString == <<>>

(* The string constants of the code and of the inputs, each written as the *)
(* sequence of its characters                                              *)

\* 0123456789abcdefghijklmnopqrstuvwxyz
Base36Alphabet ==
    <<"0", "1", "2", "3", "4", "5", "6", "7", "8", "9", "a", "b", "c", "d",
    "e", "f", "g", "h", "i", "j", "k", "l", "m", "n", "o", "p", "q", "r",
    "s", "t", "u", "v", "w", "x", "y", "z">>

\* -k8s
strK8sSuffix ==
    <<"-", "k", "8", "s">>

\* \"
jsonEscQuote ==
    <<"\\", "\"">>

\* \\
jsonEscBackslash ==
    <<"\\", "\\">>

\* \u003c
jsonEscLess ==
    <<"\\", "u", "0", "0", "3", "c">>

\* \u003e
jsonEscGreater ==
    <<"\\", "u", "0", "0", "3", "e">>

\* \u0026
jsonEscAmpersand ==
    <<"\\", "u", "0", "0", "2", "6">>

\* {"Action":
jsonKeyAction ==
    <<"{", "\"", "A", "c", "t", "i", "o", "n", "\"", ":">>

\* ,"Effect":
jsonKeyEffect ==
    <<",", "\"", "E", "f", "f", "e", "c", "t", "\"", ":">>

\* ,"Principal":{"AWS":
jsonKeyPrincipal ==
    <<",", "\"", "P", "r", "i", "n", "c", "i", "p", "a", "l", "\"", ":",
    "{", "\"", "A", "W", "S", "\"", ":">>

\* ,"Resource":
jsonKeyResource ==
    <<",", "\"", "R", "e", "s", "o", "u", "r", "c", "e", "\"", ":">>

\* ,"Sid":
jsonKeySid ==
    <<",", "\"", "S", "i", "d", "\"", ":">>

\* {"Statement":[
jsonKeyStatement ==
    <<"{", "\"", "S", "t", "a", "t", "e", "m", "e", "n", "t", "\"", ":",
    "[">>

\* ],"Version":
jsonKeyVersion ==
    <<"]", ",", "\"", "V", "e", "r", "s", "i", "o", "n", "\"", ":">>

\* 123456789012
strAccount ==
    <<"1", "2", "3", "4", "5", "6", "7", "8", "9", "0", "1", "2">>

\* arn:aws:iam::
strArnIam ==
    <<"a", "r", "n", ":", "a", "w", "s", ":", "i", "a", "m", ":", ":">>

\* :role/
strRole ==
    <<":", "r", "o", "l", "e", "/">>

\* arn:aws:s3:::
strArnS3 ==
    <<"a", "r", "n", ":", "a", "w", "s", ":", "s", "3", ":", ":", ":">>

\* /control-plane/*
strControlPlaneObjects ==
    <<"/", "c", "o", "n", "t", "r", "o", "l", "-", "p", "l", "a", "n", "e",
    "/", "*">>

\* /node/*
strNodeObjects ==
    <<"/", "n", "o", "d", "e", "/", "*">>

\* control-plane
strControlPlane ==
    <<"c", "o", "n", "t", "r", "o", "l", "-", "p", "l", "a", "n", "e">>

\* Allow
strAllow ==
    <<"A", "l", "l", "o", "w">>

\* s3:GetObject
strGetObject ==
    <<"s", "3", ":", "G", "e", "t", "O", "b", "j", "e", "c", "t">>

\* 2012-10-17
strPolicyVersion ==
    <<"2", "0", "1", "2", "-", "1", "0", "-", "1", "7">>

\* ..
strDotDot ==
    <<".", ".">>

\* %20
urlEscSpace ==
    <<"%", "2", "0">>

\* %3F
urlEscQuestion ==
    <<"%", "3", "F">>

\* %23
urlEscHash ==
    <<"%", "2", "3">>

\* %25
urlEscPercent ==
    <<"%", "2", "5">>

\* //
strSlashSlash ==
    <<"/", "/">>

\* s3
strS3 ==
    <<"s", "3">>

\* cp-0
strCp0 ==
    <<"c", "p", "-", "0">>

\* node
strNode ==
    <<"n", "o", "d", "e">>

\* other-bucket
strOtherBucket ==
    <<"o", "t", "h", "e", "r", "-", "b", "u", "c", "k", "e", "t">>

\* keep
strKeep ==
    <<"k", "e", "e", "p">>

\* my-bucket
strMyBucket ==
    <<"m", "y", "-", "b", "u", "c", "k", "e", "t">>

\* demo
strDemo ==
    <<"d", "e", "m", "o">>

\* cluster1
strCluster1 ==
    <<"c", "l", "u", "s", "t", "e", "r", "1">>

\* cp-role
strCpRole ==
    <<"c", "p", "-", "r", "o", "l", "e">>

\* n1-role
strN1Role ==
    <<"n", "1", "-", "r", "o", "l", "e">>

\* n2-role
strN2Role ==
    <<"n", "2", "-", "r", "o", "l", "e">>

\* prod
strProd ==
    <<"p", "r", "o", "d">>

\* c2
strC2 ==
    <<"c", "2">>

\* demo-cluster1
strDemoCluster1 ==
    <<"d", "e", "m", "o", "-", "c", "l", "u", "s", "t", "e", "r", "1">>

\* arn:aws:iam::123456789012:role/
strRoleArnPrefix ==
    <<"a", "r", "n", ":", "a", "w", "s", ":", "i", "a", "m", ":", ":", "1",
    "2", "3", "4", "5", "6", "7", "8", "9", "0", "1", "2", ":", "r", "o",
    "l", "e", "/">>

\* arn:aws:s3:::my-bucket/node/*
strMyBucketNodeObjects ==
    <<"a", "r", "n", ":", "a", "w", "s", ":", "s", "3", ":", ":", ":", "m",
    "y", "-", "b", "u", "c", "k", "e", "t", "/", "n", "o", "d", "e", "/",
    "*">>

\* node-userdata
strNodeUserdata ==
    <<"n", "o", "d", "e", "-", "u", "s", "e", "r", "d", "a", "t", "a">>

\* 2.2.0
strSchemaVersion ==
    <<"2", ".", "2", ".", "0">>

\* userdata-bucket
strUserdataBucket ==
    <<"u", "s", "e", "r", "d", "a", "t", "a", "-", "b", "u", "c", "k", "e",
    "t">>

\* uuid-1
strUuid1 ==
    <<"u", "u", "i", "d", "-", "1">>

\* uuid-
strUuidPrefix ==
    <<"u", "u", "i", "d", "-">>

\* v1.17.4
strV1174 ==
    <<"v", "1", ".", "1", "7", ".", "4">>

\* v1.15.11
strV11511 ==
    <<"v", "1", ".", "1", "5", ".", "1", "1">>

\* ignition-config/k8s-v1.15.11.ign
strTemplate11511 ==
    <<"i", "g", "n", "i", "t", "i", "o", "n", "-", "c", "o", "n", "f", "i",
    "g", "/", "k", "8", "s", "-", "v", "1", ".", "1", "5", ".", "1", "1",
    ".", "i", "g", "n">>

\* v1.16.8
strV1168 ==
    <<"v", "1", ".", "1", "6", ".", "8">>

\* ignition-config/k8s-v1.16.8.ign
strTemplate1168 ==
    <<"i", "g", "n", "i", "t", "i", "o", "n", "-", "c", "o", "n", "f", "i",
    "g", "/", "k", "8", "s", "-", "v", "1", ".", "1", "6", ".", "8", ".",
    "i", "g", "n">>

\* ignition-config/k8s-v1.17.4.ign
strTemplate1174 ==
    <<"i", "g", "n", "i", "t", "i", "o", "n", "-", "c", "o", "n", "f", "i",
    "g", "/", "k", "8", "s", "-", "v", "1", ".", "1", "7", ".", "4", ".",
    "i", "g", "n">>

\* %2F
dataurlEscSlash ==
    <<"%", "2", "F">>

\* %3D
dataurlEscEquals ==
    <<"%", "3", "D">>

\* data:
strDataScheme ==
    <<"d", "a", "t", "a", ":">>

\* root
strRoot ==
    <<"r", "o", "o", "t">>

\* /etc/foo
strEtcFoo ==
    <<"/", "e", "t", "c", "/", "f", "o", "o">>

\* bar
strBar ==
    <<"b", "a", "r">>

\* 0640
str0640 ==
    <<"0", "6", "4", "0">>

\* /etc/empty
strEtcEmpty ==
    <<"/", "e", "t", "c", "/", "e", "m", "p", "t", "y">>

\* /etc/motd
strEtcMotd ==
    <<"/", "e", "t", "c", "/", "m", "o", "t", "d">>

\* a b%
strMotd ==
    <<"a", " ", "b", "%">>

\* -7
strMinus7 ==
    <<"-", "7">>

\* /etc/bad
strEtcBad ==
    <<"/", "e", "t", "c", "/", "b", "a", "d">>

\* x/y=z
strBadContent ==
    <<"x", "/", "y", "=", "z">>

\* 888
str888 ==
    <<"8", "8", "8">>

\* kubeadm.service
strKubeadmService ==
    <<"k", "u", "b", "e", "a", "d", "m", ".", "s", "e", "r", "v", "i", "c",
    "e">>

\* [Unit]
strUnitSection ==
    <<"[", "U", "n", "i", "t", "]">>

\* 10-env.conf
strDropinName ==
    <<"1", "0", "-", "e", "n", "v", ".", "c", "o", "n", "f">>

\* [Service]
strServiceSection ==
    <<"[", "S", "e", "r", "v", "i", "c", "e", "]">>

\* v9
strV9 ==
    <<"v", "9">>

\* 1.1.1.1
strIpOnes ==
    <<"1", ".", "1", ".", "1", ".", "1">>

\* 10.0.0.1
strIpTen ==
    <<"1", "0", ".", "0", ".", "0", ".", "1">>

\* 1.1.1.a
strIpLike ==
    <<"1", ".", "1", ".", "1", ".", "a">>

\* ::1
strIpLoopback6 ==
    <<":", ":", "1">>

\* s3://
strS3Scheme ==
    <<"s", "3", ":", "/", "/">>

\* s3://my-bucket/control-plane/cp-0
strCp0Url ==
    <<"s", "3", ":", "/", "/", "m", "y", "-", "b", "u", "c", "k", "e", "t",
    "/", "c", "o", "n", "t", "r", "o", "l", "-", "p", "l", "a", "n", "e",
    "/", "c", "p", "-", "0">>

\* control-plane/cp-0
strCp0Key ==
    <<"c", "o", "n", "t", "r", "o", "l", "-", "p", "l", "a", "n", "e", "/",
    "c", "p", "-", "0">>

\* s3://userdata-bucket/
strUserdataUrlPrefix ==
    <<"s", "3", ":", "/", "/", "u", "s", "e", "r", "d", "a", "t", "a", "-",
    "b", "u", "c", "k", "e", "t", "/">>

\* arn:aws:iam::123456789012:role/"
strEmptyRoleArn ==
    <<"a", "r", "n", ":", "a", "w", "s", ":", "i", "a", "m", ":", ":", "1",
    "2", "3", "4", "5", "6", "7", "8", "9", "0", "1", "2", ":", "r", "o",
    "l", "e", "/", "\"">>

\* 20
hexSpace ==
    <<"2", "0">>

\* 25
hexPercent ==
    <<"2", "5">>

\* 2F
hexSlash ==
    <<"2", "F">>

\* 3D
hexEquals ==
    <<"3", "D">>

\* data:,
strDataPrefix ==
    <<"d", "a", "t", "a", ":", ",">>

\* data:,bar
strDataBar ==
    <<"d", "a", "t", "a", ":", ",", "b", "a", "r">>

\* s3://userdata-bucket/ignition-config/k8s-v1.15.11.ign
strTemplateUrl11511 ==
    <<"s", "3", ":", "/", "/", "u", "s", "e", "r", "d", "a", "t", "a", "-",
    "b", "u", "c", "k", "e", "t", "/", "i", "g", "n", "i", "t", "i", "o",
    "n", "-", "c", "o", "n", "f", "i", "g", "/", "k", "8", "s", "-", "v",
    "1", ".", "1", "5", ".", "1", "1", ".", "i", "g", "n">>

\* s3://userdata-bucket/ignition-config/k8s-v1.16.8.ign
strTemplateUrl1168 ==
    <<"s", "3", ":", "/", "/", "u", "s", "e", "r", "d", "a", "t", "a", "-",
    "b", "u", "c", "k", "e", "t", "/", "i", "g", "n", "i", "t", "i", "o",
    "n", "-", "c", "o", "n", "f", "i", "g", "/", "k", "8", "s", "-", "v",
    "1", ".", "1", "6", ".", "8", ".", "i", "g", "n">>

\* s3://userdata-bucket/ignition-config/k8s-v1.17.4.ign
strTemplateUrl1174 ==
    <<"s", "3", ":", "/", "/", "u", "s", "e", "r", "d", "a", "t", "a", "-",
    "b", "u", "c", "k", "e", "t", "/", "i", "g", "n", "i", "t", "i", "o",
    "n", "-", "c", "o", "n", "f", "i", "g", "/", "k", "8", "s", "-", "v",
    "1", ".", "1", "7", ".", "4", ".", "i", "g", "n">>

Lower == {"a", "b", "c", "d", "e", "f", "g", "h", "i", "j", "k", "l", "m",
          "n", "o", "p", "q", "r", "s", "t", "u", "v", "w", "x", "y", "z"}

Digit == {"0", "1", "2", "3", "4", "5", "6", "7", "8", "9"}

\* a local variable: v is computed once and F is applied to its value
With(v, F(_)) == CHOOSE y \in {F(x) : x \in {v}} : TRUE

\* c repeated n times
Repeat(c, n) == [i \in 1..n |-> c]

RECURSIVE JoinStrings(_, _)
\* strings.Join / fmt.Sprintf of the elements of parts with sep in between
JoinStrings(parts, sep) ==
    IF Len(parts) = 0 THEN EmptyString
    ELSE IF Len(parts) = 1 THEN parts[1]
    ELSE parts[1] \o sep \o JoinStrings(Tail(parts), sep)

RECURSIVE FlattenRange(_, _, _)
\* parts[lo] \o ... \o parts[hi], halving the range
FlattenRange(parts, lo, hi) ==
    IF lo > hi THEN EmptyString
    ELSE IF lo = hi THEN parts[lo]
    ELSE LET mid == (lo + hi) \div 2
         IN  FlattenRange(parts, lo, mid) \o FlattenRange(parts, mid + 1, hi)

\* the concatenation of the strings of parts
Flatten(parts) == FlattenRange(parts, 1, Len(parts))

RECURSIVE SumRange(_, _, _)
\* f[lo] + ... + f[hi], halving the range
SumRange(f, lo, hi) ==
    IF lo > hi THEN 0
    ELSE IF lo = hi THEN f[lo]
    ELSE LET mid == (lo + hi) \div 2
         IN  SumRange(f, lo, mid) + SumRange(f, mid + 1, hi)

\* strings.Split on one separator character: the pieces of s between
\* occurrences of sep, in order
SplitOn(s, sep) ==
    LET cuts == {0, Len(s) + 1} \cup {i \in 1..Len(s) : s[i] = sep}
        cut(k) == CHOOSE c \in cuts : Cardinality({d \in cuts : d < c}) = k - 1
    IN  [k \in 1..(Cardinality(cuts) - 1) |->
            SubSeq(s, cut(k) + 1, cut(k + 1) - 1)]

HasSuffix(s, suffix) ==
    /\ Len(s) >= Len(suffix)
    /\ SubSeq(s, Len(s) - Len(suffix) + 1, Len(s)) = suffix

HasPrefix(s, prefix) ==
    /\ Len(s) >= Len(prefix)
    /\ SubSeq(s, 1, Len(prefix)) = prefix

----------------------------------------------------------------------------
(* Errors: an error is the chain of its messages, outermost first, as      *)
(* errors.Wrap builds it; the last entry is the cause.                     *)

Nil == <<>>

ErrorsNew(msg) == <<msg>>

ErrorsWrap(e, msg) == <<msg>> \o e

----------------------------------------------------------------------------
(* pkg/hash (not among the sources; modelled from the specification):      *)
(* a fixed-width, deterministic, base-36 truncated hash.                   *)

\* the position of each character in the base-36 alphabet
Base36Code ==
    [c \in {Base36Alphabet[i] : i \in 1..Len(Base36Alphabet)} |->
        CHOOSE i \in 1..Len(Base36Alphabet) : Base36Alphabet[i] = c]

\* the position of a character in the base-36 alphabet, 0 for any other
CharCode(c) == IF c \in DOMAIN Base36Code THEN Base36Code[c] ELSE 0

\* a digest of str: the weighted sum of its characters' codes
Digest(str) ==
    SumRange([i \in 1..Len(str) |-> (CharCode(str[i]) + 1) * i], 1, Len(str)) % 65521

Base36TruncatedHash(str, len) ==
    IF len < 1
    THEN [str |-> EmptyString, err |-> ErrorsNew("unable to create hash function")]
    ELSE LET d == Digest(str)
         IN  [str |-> [i \in 1..len |->
                          Base36Alphabet[((d + i * (d \div 36 + 1)) % 36) + 1]],
              err |-> Nil]

----------------------------------------------------------------------------
(* Service.bucketName *)

s3MaxBucketNameLength == 63

\* variant: a candidate of any length is used as it is
bucketNameFitsAlways(len) == TRUE

\* variant: a candidate as long as the limit is used as it is
bucketNameFitsInclusive(len) == len <= s3MaxBucketNameLength

\* the candidate is used as it is when it is shorter than the limit
bucketNameFits(len) == len < s3MaxBucketNameLength

bucketName(sc) ==
    IF sc.Bucket.Name # EmptyString
    THEN [name |-> sc.Bucket.Name, err |-> Nil]
    ELSE LET name == JoinStrings(<<sc.Namespace, sc.ClusterName>>, <<"-">>)
         IN  IF bucketNameFits(Len(name))
             THEN [name |-> name, err |-> Nil]
             ELSE LET suffix == strK8sSuffix
                      h == Base36TruncatedHash(name,
                               s3MaxBucketNameLength - Len(suffix))
                  IN  IF h.err # Nil
                      THEN [name |-> EmptyString,
                            err |-> ErrorsWrap(h.err, "unable to create S3 bucket name")]
                      ELSE [name |-> h.str \o suffix, err |-> Nil]

----------------------------------------------------------------------------
(* encoding/json: json.Marshal of the policy map.  Map keys are written in *)
(* sorted order; strings are quoted and escaped.                           *)

jsonEscapeChar(c) ==
    IF c = "\"" THEN jsonEscQuote
    ELSE IF c = "\\" THEN jsonEscBackslash
    ELSE IF c = "<" THEN jsonEscLess
    ELSE IF c = ">" THEN jsonEscGreater
    ELSE IF c = "&" THEN jsonEscAmpersand
    ELSE <<c>>

\* the characters json.Marshal does not write as they are
jsonEscaped == {"\"", "\\", "<", ">", "&"}

jsonEscape(s) ==
    IF \A i \in 1..Len(s) : s[i] \notin jsonEscaped THEN s
    ELSE Flatten([i \in 1..Len(s) |-> jsonEscapeChar(s[i])])

jsonString(s) == <<"\"">> \o jsonEscape(s) \o <<"\"">>

\* the already encoded elements, separated by commas
jsonList(elems) == JoinStrings(elems, <<",">>)

jsonStringArray(strs) ==
    <<"[">> \o jsonList([i \in 1..Len(strs) |-> jsonString(strs[i])]) \o <<"]">>

\* one statement of the policy: keys Action, Effect, Principal, Resource, Sid
jsonStatement(st) ==
    jsonKeyAction \o jsonStringArray(st.Action)
    \o jsonKeyEffect \o jsonString(st.Effect)
    \o jsonKeyPrincipal \o jsonString(st.Principal) \o <<"}">>
    \o jsonKeyResource \o jsonString(st.Resource)
    \o jsonKeySid \o jsonString(st.Sid)
    \o <<"}">>

\* the policy: keys Statement, Version
jsonMarshal(policy) ==
    jsonKeyStatement
    \o jsonList([i \in 1..Len(policy.Statement) |-> jsonStatement(policy.Statement[i])])
    \o jsonKeyVersion \o jsonString(policy.Version)
    \o <<"}">>

----------------------------------------------------------------------------
(* The clients.  A response is an input: "ok" or an error code.  A         *)
(* response is valid only in a store state in which the service can give   *)
(* it.                                                                     *)

\* the account the STS client's credentials belong to
CallerAccount == strAccount

NoPolicy == EmptyString

NoObjects == [k \in {} |-> EmptyString]

\* the codes that are awserr.Error values; any other failure is a plain error
AwsErrorCodes == {"BucketAlreadyOwnedByYou", "BucketAlreadyExists", "BucketNotEmpty",
                  "NoSuchBucket", "MalformedPolicy", "AccessDenied"}

ClientError(code) == IF code = "ok" THEN Nil ELSE <<code>>

Call(api, bucket, key, body, policy, code) ==
    [api |-> api, Bucket |-> bucket, Key |-> key, Body |-> body,
     Policy |-> policy, code |-> code]

S3CreateBucket(st, name, code) ==
    [store |-> IF code = "ok" /\ name \notin DOMAIN st
               THEN (name :> [policy |-> NoPolicy, objects |-> NoObjects]) @@ st
               ELSE st,
     err |-> ClientError(code),
     calls |-> <<Call("CreateBucket", name, EmptyString, EmptyString, EmptyString, code)>>,
     valid |-> /\ code = "BucketAlreadyOwnedByYou" => name \in DOMAIN st
               /\ code = "BucketAlreadyExists" => name \notin DOMAIN st]

S3PutBucketPolicy(st, name, policy, code) ==
    [store |-> IF code = "ok" /\ name \in DOMAIN st
               THEN [st EXCEPT ![name].policy = policy]
               ELSE st,
     err |-> ClientError(code),
     calls |-> <<Call("PutBucketPolicy", name, EmptyString, EmptyString, policy, code)>>,
     valid |-> /\ code = "ok" => name \in DOMAIN st
               /\ code = "NoSuchBucket" => name \notin DOMAIN st]

S3DeleteBucket(st, name, code) ==
    [store |-> IF code = "ok"
               THEN [b \in DOMAIN st \ {name} |-> st[b]]
               ELSE st,
     err |-> ClientError(code),
     calls |-> <<Call("DeleteBucket", name, EmptyString, EmptyString, EmptyString, code)>>,
     valid |-> /\ code = "ok" => name \in DOMAIN st /\ DOMAIN st[name].objects = {}
               /\ code = "BucketNotEmpty" =>
                      name \in DOMAIN st /\ DOMAIN st[name].objects # {}
               /\ code = "NoSuchBucket" => name \notin DOMAIN st]

S3PutObject(st, name, key, body, code) ==
    [store |-> IF code = "ok" /\ name \in DOMAIN st
               THEN [st EXCEPT ![name].objects = (key :> body) @@ @]
               ELSE st,
     err |-> ClientError(code),
     calls |-> <<Call("PutObject", name, key, body, EmptyString, code)>>,
     valid |-> /\ code = "ok" => name \in DOMAIN st
               /\ code = "NoSuchBucket" => name \notin DOMAIN st]

S3DeleteObject(st, name, key, code) ==
    [store |-> IF code = "ok" /\ name \in DOMAIN st
               THEN [st EXCEPT ![name].objects =
                        [k \in DOMAIN @ \ {key} |-> @[k]]]
               ELSE st,
     err |-> ClientError(code),
     calls |-> <<Call("DeleteObject", name, key, EmptyString, EmptyString, code)>>,
     valid |-> /\ code = "ok" => name \in DOMAIN st
               /\ code = "NoSuchBucket" => name \notin DOMAIN st]

STSGetCallerIdentity(code) ==
    [Account |-> IF code = "ok" THEN CallerAccount ELSE EmptyString,
     err |-> ClientError(code),
     calls |-> <<Call("GetCallerIdentity", EmptyString, EmptyString, EmptyString,
                      EmptyString, code)>>,
     valid |-> TRUE]

----------------------------------------------------------------------------
(* Service.bucketPolicy, Service.ensureBucketPolicy,                       *)
(* Service.createBucketIfNotExist                                          *)

\* fmt.Sprintf("arn:aws:iam::%s:role/%s", account, role)
roleArn(account, role) == strArnIam \o account \o strRole \o role

\* fmt.Sprintf("arn:aws:s3:::%s/control-plane/*", bucketName)
controlPlaneResource(name) == strArnS3 \o name \o strControlPlaneObjects

\* variant: the node statements name the control plane's prefix
nodeResourceControlPlane(name) == strArnS3 \o name \o strControlPlaneObjects

\* fmt.Sprintf("arn:aws:s3:::%s/node/*", bucketName)
nodeResource(name) == strArnS3 \o name \o strNodeObjects

\* the statements of the policy: the control plane's, then one per entry of
\* NodesIAMInstanceProfiles in order
policyStatements(bucket, name, account) ==
    <<[Sid |-> strControlPlane,
       Effect |-> strAllow,
       Principal |-> roleArn(account, bucket.ControlPlaneIAMInstanceProfile),
       Action |-> <<strGetObject>>,
       Resource |-> controlPlaneResource(name)]>>
    \o [i \in 1..Len(bucket.NodesIAMInstanceProfiles) |->
          [Sid |-> bucket.NodesIAMInstanceProfiles[i],
           Effect |-> strAllow,
           Principal |-> roleArn(account, bucket.NodesIAMInstanceProfiles[i]),
           Action |-> <<strGetObject>>,
           Resource |-> nodeResource(name)]]

policyDocument(bucket, name, account) ==
    [Version |-> strPolicyVersion,
     Statement |-> policyStatements(bucket, name, account)]

bucketPolicy(sc, name, stsCode) ==
    LET accountID == STSGetCallerIdentity(stsCode)
    IN  IF accountID.err # Nil
        THEN [policy |-> EmptyString,
              err |-> ErrorsWrap(accountID.err, "getting account ID"),
              calls |-> accountID.calls, valid |-> accountID.valid]
        ELSE [policy |-> jsonMarshal(policyDocument(sc.Bucket, name, accountID.Account)),
              err |-> Nil,
              calls |-> accountID.calls, valid |-> accountID.valid]

\* variant: the policy is attached whether or not it could be generated
ensureBucketPolicyUnchecked(sc, st, name, stsCode, policyCode) ==
    LET p == bucketPolicy(sc, name, stsCode)
        r == S3PutBucketPolicy(st, name, p.policy, policyCode)
    IN  [store |-> r.store,
         err |-> IF r.err # Nil
                 THEN ErrorsWrap(r.err, "creating S3 bucket policy")
                 ELSE Nil,
         calls |-> p.calls \o r.calls,
         valid |-> p.valid /\ r.valid]

ensureBucketPolicy(sc, st, name, stsCode, policyCode) ==
    With(bucketPolicy(sc, name, stsCode), LAMBDA p :
        IF p.err # Nil
        THEN [store |-> st, err |-> ErrorsWrap(p.err, "generating Bucket policy"),
              calls |-> p.calls, valid |-> p.valid]
        ELSE With(S3PutBucketPolicy(st, name, p.policy, policyCode), LAMBDA r :
                 [store |-> r.store,
                  err |-> IF r.err # Nil
                          THEN ErrorsWrap(r.err, "creating S3 bucket policy")
                          ELSE Nil,
                  calls |-> p.calls \o r.calls,
                  valid |-> p.valid /\ r.valid]))

\* variant: every AWS error code counts as the bucket being there
bucketAlreadyThereAnyCode(code) == TRUE

\* variant: no error code counts as the bucket being there
bucketAlreadyThereNever(code) == FALSE

\* the switch on aerr.Code(): the codes for which the bucket counts as there
bucketAlreadyThere(code) == code = "BucketAlreadyOwnedByYou"

createBucketIfNotExist(st, name, createCode) ==
    LET r == S3CreateBucket(st, name, createCode)
    IN  [store |-> r.store,
         err |-> IF r.err = Nil THEN Nil
                 ELSE IF createCode \notin AwsErrorCodes
                      THEN ErrorsWrap(r.err, "creating S3 bucket")
                 ELSE IF bucketAlreadyThere(createCode) THEN Nil
                 ELSE ErrorsWrap(r.err, "creating S3 bucket"),
         calls |-> r.calls, valid |-> r.valid]

\* variant: management counts as enabled whatever the bucket spec says
bucketManagementAlwaysEnabled(sc) == TRUE

bucketManagementEnabled(sc) == sc.Bucket.Create

----------------------------------------------------------------------------
(* path.Join and url.URL.String, as Service.bootstrapDataKey and           *)
(* Service.Create use them                                                 *)

\* the components of p between slashes, in order
SplitPath(p) == SplitOn(p, "/")

RECURSIVE CleanComponents(_, _, _)
\* path.Clean on components: "" and "." are dropped, ".." removes the
\* component before it (and is kept at the start of a path that is not rooted)
CleanComponents(comps, done, rooted) ==
    IF Len(comps) = 0 THEN done
    ELSE LET c == Head(comps)
         IN  IF c = EmptyString \/ c = <<".">>
             THEN CleanComponents(Tail(comps), done, rooted)
             ELSE IF c = strDotDot
             THEN IF Len(done) > 0 /\ done[Len(done)] # strDotDot
                  THEN CleanComponents(Tail(comps), SubSeq(done, 1, Len(done) - 1), rooted)
                  ELSE IF rooted
                  THEN CleanComponents(Tail(comps), done, rooted)
                  ELSE CleanComponents(Tail(comps), Append(done, c), rooted)
             ELSE CleanComponents(Tail(comps), Append(done, c), rooted)

pathClean(p) ==
    IF p = EmptyString THEN <<".">>
    ELSE LET rooted == Head(p) = "/"
             body == JoinStrings(CleanComponents(SplitPath(p), <<>>, rooted),
                                 <<"/">>)
             res == IF rooted THEN <<"/">> \o body ELSE body
         IN  IF res = EmptyString THEN <<".">> ELSE res

\* path.Join: the non-empty elements joined by a slash, then cleaned
pathJoin(elems) ==
    LET nonEmpty == SelectSeq(elems, LAMBDA e : e # EmptyString)
    IN  IF Len(nonEmpty) = 0 THEN EmptyString
        ELSE pathClean(JoinStrings(nonEmpty, <<"/">>))

\* variant: the key is the machine's name alone
bootstrapDataKeyNameOnly(m) == m.Name

bootstrapDataKey(m) == pathJoin(<<m.Role, m.Name>>)

\* the characters url.URL.String leaves as they are in a path
urlPathSafe == Lower \cup Digit \cup
    {"A", "B", "C", "D", "E", "F", "G", "H", "I", "J", "K", "L", "M",
     "N", "O", "P", "Q", "R", "S", "T", "U", "V", "W", "X", "Y", "Z",
     "-", "_", ".", "~", "$", "&", "+", ",", "/", ":", ";", "=", "@"}

\* the percent-encoding of the characters outside urlPathSafe that names hold
urlEscapeChar(c) ==
    CASE c \in urlPathSafe -> <<c>>
      [] c = " " -> urlEscSpace
      [] c = "?" -> urlEscQuestion
      [] c = "#" -> urlEscHash
      [] c = "%" -> urlEscPercent

urlEscapedPath(p) ==
    IF \A i \in 1..Len(p) : p[i] \in urlPathSafe THEN p
    ELSE Flatten([i \in 1..Len(p) |-> urlEscapeChar(p[i])])

\* (&url.URL{Scheme: scheme, Host: host, Path: path}).String()
urlString(scheme, host, path) ==
    LET escaped == urlEscapedPath(path)
    IN  (IF scheme # EmptyString THEN scheme \o <<":">> ELSE EmptyString)
        \o (IF scheme # EmptyString \/ host # EmptyString
            THEN (IF host # EmptyString \/ path # EmptyString
                  THEN strSlashSlash ELSE EmptyString) \o host
            ELSE EmptyString)
        \o (IF escaped # EmptyString /\ Head(escaped) # "/" /\ host # EmptyString
            THEN <<"/">> ELSE EmptyString)
        \o escaped

----------------------------------------------------------------------------
(* The operations of Service, each run against a store st with the         *)
(* responses of the client calls it may make.  The result is the store     *)
(* afterwards, the calls made, the error and the string returned; valid    *)
(* says that every response was one the service can give in that state.    *)

Result(st, cs, e, o, v) ==
    [store |-> st, calls |-> cs, err |-> e, out |-> o, valid |-> v]

ErrNotEnabled ==
    ErrorsNew("requested object creation but bucket management is not enabled")

ErrNilMachine == ErrorsNew("machine scope can't be nil")

ErrEmptyData == ErrorsNew("got empty data")

\* variant: a bucket that is already there is left as it is, policy included
ReconcileBucketRunCreatedOnly(sc, st, createCode, stsCode, policyCode) ==
    IF ~bucketManagementEnabled(sc)
    THEN Result(st, <<>>, Nil, EmptyString, TRUE)
    ELSE With(bucketName(sc), LAMBDA bn :
             IF bn.err # Nil
             THEN Result(st, <<>>, ErrorsWrap(bn.err, "generating bucket name"),
                         EmptyString, TRUE)
             ELSE With(createBucketIfNotExist(st, bn.name, createCode), LAMBDA c :
                      IF c.err # Nil
                      THEN Result(c.store, c.calls,
                                  ErrorsWrap(c.err, "ensuring bucket exists"),
                                  EmptyString, c.valid)
                      ELSE IF createCode = "BucketAlreadyOwnedByYou"
                      THEN Result(c.store, c.calls, Nil, EmptyString, c.valid)
                      ELSE With(ensureBucketPolicy(sc, c.store, bn.name,
                                                   stsCode, policyCode), LAMBDA p :
                               Result(p.store, c.calls \o p.calls,
                                      IF p.err # Nil
                                      THEN ErrorsWrap(p.err, "ensuring bucket policy")
                                      ELSE Nil,
                                      EmptyString, c.valid /\ p.valid))))

ReconcileBucketRun(sc, st, createCode, stsCode, policyCode) ==
    IF ~bucketManagementEnabled(sc)
    THEN Result(st, <<>>, Nil, EmptyString, TRUE)
    ELSE With(bucketName(sc), LAMBDA bn :
             IF bn.err # Nil
             THEN Result(st, <<>>, ErrorsWrap(bn.err, "generating bucket name"),
                         EmptyString, TRUE)
             ELSE With(createBucketIfNotExist(st, bn.name, createCode), LAMBDA c :
                      IF c.err # Nil
                      THEN Result(c.store, c.calls,
                                  ErrorsWrap(c.err, "ensuring bucket exists"),
                                  EmptyString, c.valid)
                      ELSE With(ensureBucketPolicy(sc, c.store, bn.name,
                                                   stsCode, policyCode), LAMBDA p :
                               Result(p.store, c.calls \o p.calls,
                                      IF p.err # Nil
                                      THEN ErrorsWrap(p.err, "ensuring bucket policy")
                                      ELSE Nil,
                                      EmptyString, c.valid /\ p.valid))))

\* variant: a bucket that is not there counts as deleted
DeleteBucketRunTolerant(sc, st, deleteCode) ==
    IF ~bucketManagementEnabled(sc)
    THEN Result(st, <<>>, Nil, EmptyString, TRUE)
    ELSE LET r == S3DeleteBucket(st, bucketName(sc).name, deleteCode)
         IN  Result(r.store, r.calls,
                    IF r.err # Nil /\ deleteCode # "NoSuchBucket"
                    THEN ErrorsWrap(r.err, "deleting S3 bucket")
                    ELSE Nil,
                    EmptyString, r.valid)

DeleteBucketRun(sc, st, deleteCode) ==
    IF ~bucketManagementEnabled(sc)
    THEN Result(st, <<>>, Nil, EmptyString, TRUE)
    ELSE LET bn == bucketName(sc)
         IN  IF bn.err # Nil
             THEN Result(st, <<>>, ErrorsWrap(bn.err, "generating bucket name"),
                         EmptyString, TRUE)
             ELSE LET r == S3DeleteBucket(st, bn.name, deleteCode)
                  IN  Result(r.store, r.calls,
                             IF r.err # Nil
                             THEN ErrorsWrap(r.err, "deleting S3 bucket")
                             ELSE Nil,
                             EmptyString, r.valid)

\* variant: a PutObject that failed is tried once more
CreateRunRetrying(sc, st, m, data, putCode) ==
    IF ~bucketManagementEnabled(sc)
    THEN Result(st, <<>>, ErrNotEnabled, EmptyString, TRUE)
    ELSE IF m.nil
    THEN Result(st, <<>>, ErrNilMachine, EmptyString, TRUE)
    ELSE IF Len(data) = 0
    THEN Result(st, <<>>, ErrEmptyData, EmptyString, TRUE)
    ELSE LET bucket == bucketName(sc).name
             key == bootstrapDataKey(m)
             r == S3PutObject(st, bucket, key, data, putCode)
         IN  IF r.err # Nil
             THEN Result(r.store, r.calls \o r.calls,
                         ErrorsWrap(r.err, "putting object"), EmptyString, r.valid)
             ELSE Result(r.store, r.calls, Nil, urlString(strS3, bucket, key), r.valid)

\* variant: the machine is checked before bucket management is
CreateRunMachineFirst(sc, st, m, data, putCode) ==
    IF m.nil
    THEN Result(st, <<>>, ErrNilMachine, EmptyString, TRUE)
    ELSE IF ~bucketManagementEnabled(sc)
    THEN Result(st, <<>>, ErrNotEnabled, EmptyString, TRUE)
    ELSE IF Len(data) = 0
    THEN Result(st, <<>>, ErrEmptyData, EmptyString, TRUE)
    ELSE LET bn == bucketName(sc)
         IN  IF bn.err # Nil
             THEN Result(st, <<>>, ErrorsWrap(bn.err, "generating bucket name"),
                         EmptyString, TRUE)
             ELSE LET key == bootstrapDataKey(m)
                      r == S3PutObject(st, bn.name, key, data, putCode)
                  IN  IF r.err # Nil
                      THEN Result(r.store, r.calls, ErrorsWrap(r.err, "putting object"),
                                  EmptyString, r.valid)
                      ELSE Result(r.store, r.calls, Nil,
                                  urlString(strS3, bn.name, key), r.valid)

CreateRun(sc, st, m, data, putCode) ==
    IF ~bucketManagementEnabled(sc)
    THEN Result(st, <<>>, ErrNotEnabled, EmptyString, TRUE)
    ELSE IF m.nil
    THEN Result(st, <<>>, ErrNilMachine, EmptyString, TRUE)
    ELSE IF Len(data) = 0
    THEN Result(st, <<>>, ErrEmptyData, EmptyString, TRUE)
    ELSE LET bn == bucketName(sc)
         IN  IF bn.err # Nil
             THEN Result(st, <<>>, ErrorsWrap(bn.err, "generating bucket name"),
                         EmptyString, TRUE)
             ELSE LET key == bootstrapDataKey(m)
                      r == S3PutObject(st, bn.name, key, data, putCode)
                  IN  IF r.err # Nil
                      THEN Result(r.store, r.calls, ErrorsWrap(r.err, "putting object"),
                                  EmptyString, r.valid)
                      ELSE Result(r.store, r.calls, Nil,
                                  urlString(strS3, bn.name, key), r.valid)

DeleteRun(sc, st, m, deleteCode) ==
    IF ~bucketManagementEnabled(sc)
    THEN Result(st, <<>>, ErrNotEnabled, EmptyString, TRUE)
    ELSE IF m.nil
    THEN Result(st, <<>>, ErrNilMachine, EmptyString, TRUE)
    ELSE LET bn == bucketName(sc)
         IN  IF bn.err # Nil
             THEN Result(st, <<>>, ErrorsWrap(bn.err, "generating bucket name"),
                         EmptyString, TRUE)
             ELSE LET r == S3DeleteObject(st, bn.name, bootstrapDataKey(m), deleteCode)
                  IN  Result(r.store, r.calls,
                             IF r.err # Nil
                             THEN ErrorsWrap(r.err, "deleting object")
                             ELSE Nil,
                             EmptyString, r.valid)

----------------------------------------------------------------------------
(* The inputs *)

NilMachine == [nil |-> TRUE, Role |-> EmptyString, Name |-> EmptyString]

Machine(role, name) == [nil |-> FALSE, Role |-> role, Name |-> name]

\* MachineScope.Role() is "control-plane" or "node"
Machines ==
    {NilMachine,
     Machine(strControlPlane, strCp0),
     Machine(strNode, EmptyString)}

Payloads == {EmptyString, <<"x">>, <<"y">>}

\* the responses drawn for each client call
CreateBucketCodes ==
    {"ok", "BucketAlreadyOwnedByYou", "BucketAlreadyExists", "RequestError"}

GetCallerIdentityCodes == {"ok", "RequestError"}

PutBucketPolicyCodes == {"ok", "MalformedPolicy", "RequestError"}

DeleteBucketCodes == {"ok", "NoSuchBucket", "BucketNotEmpty", "RequestError"}

PutObjectCodes == {"ok", "NoSuchBucket", "RequestError"}

DeleteObjectCodes == {"ok", "NoSuchBucket", "RequestError"}

BucketSpec(create, name, cp, nodes) ==
    [Create |-> create, Name |-> name,
     ControlPlaneIAMInstanceProfile |-> cp,
     NodesIAMInstanceProfiles |-> nodes]

Scope(bucket, namespace, cluster) ==
    [Bucket |-> bucket, Namespace |-> namespace, ClusterName |-> cluster]

\* a bucket of the same account that no scope names
OtherBucket == strOtherBucket

InitialStore ==
    OtherBucket :> [policy |-> NoPolicy, objects |-> (strKeep :> <<"z">>)]

\* no concurrent calls, and a backend that no call has used
NoProcs == <<>>

NoFactory == [FilePath |-> EmptyString]

NoOp == [name |-> "none", m |-> NilMachine, data |-> EmptyString]

Operation(name, m, data) == [name |-> name, m |-> m, data |-> data]

\* a scope whose bucket spec has empty instance profile names
UnvalidatedScope ==
    Scope(BucketSpec(TRUE, strMyBucket, EmptyString, <<EmptyString>>),
          strDemo, strCluster1)

\* the scopes of the service specification
Scopes ==
    {Scope(BucketSpec(create, name, ids[1], ids[2]), names[1], names[2]) :
        create \in BOOLEAN,
        name \in {EmptyString, strMyBucket},
        ids \in {<<strCpRole, <<strN1Role, strN2Role>>>>},
        names \in {<<strDemo, strCluster1>>, <<strProd, strC2>>}}
    \cup {UnvalidatedScope}

----------------------------------------------------------------------------
(* api/v1alpha3: S3Bucket.Validate and validateS3BucketName                *)

HexDigit == Digit \cup {"a", "b", "c", "d", "e", "f", "A", "B", "C", "D", "E", "F"}

DigitValue ==
    [c \in Digit |-> CHOOSE v \in 0..9 : <<"0", "1", "2", "3", "4", "5", "6", "7", "8", "9">>[v + 1] = c]

\* the value of a string of one to three decimal digits
DecimalValue(field) ==
    SumRange([i \in 1..Len(field) |->
                 DigitValue[field[i]] * (IF Len(field) - i = 2 THEN 100
                                         ELSE IF Len(field) - i = 1 THEN 10 ELSE 1)],
             1, Len(field))

\* one field of a dotted IPv4 address: decimal, at most 255, no leading zero
IsIPv4Field(field) ==
    /\ Len(field) \in 1..3
    /\ \A i \in 1..Len(field) : field[i] \in Digit
    /\ DecimalValue(field) <= 255
    /\ Len(field) > 1 => field[1] # "0"

IsIPv4(s) ==
    LET fields == SplitOn(s, ".")
    IN  Len(fields) = 4 /\ \A i \in 1..4 : IsIPv4Field(fields[i])

IsIPv6Group(g) == Len(g) \in 1..4 /\ \A i \in 1..Len(g) : g[i] \in HexDigit

\* an IPv6 address: groups of hex digits between colons, at most one "::"
\* standing for one or more zero groups, the last four bytes possibly IPv4
IsIPv6(s) ==
    LET ellipses == {i \in 1..(Len(s) - 1) : s[i] = ":" /\ s[i + 1] = ":"}
        groups == SelectSeq(SplitOn(s, ":"), LAMBDA g : g # EmptyString)
        m == Len(groups)
        tailV4 == m >= 1 /\ IsIPv4(groups[m])
        width == IF tailV4 THEN m + 1 ELSE m
    IN  /\ \E i \in 1..Len(s) : s[i] = ":"
        /\ Cardinality(ellipses) <= 1
        /\ s[1] = ":" => 1 \in ellipses
        /\ s[Len(s)] = ":" => (Len(s) - 1) \in ellipses
        /\ \A i \in 1..m : IsIPv6Group(groups[i]) \/ (i = m /\ tailV4)
        /\ IF ellipses # {} THEN width <= 7 ELSE width = 8

\* net.ParseIP(name) != nil
IsIP(name) == IsIPv4(name) \/ IsIPv6(name)

FieldError(path, index, detail) == [path |-> path, index |-> index, detail |-> detail]

\* the characters the expressions [^a-z1-9.-], ^[a-z1-9] and [a-z1-9]$ name
s3BucketLetterOrNumber == Lower \cup (Digit \ {"0"})

s3BucketAllowedCharacters == s3BucketLetterOrNumber \cup {".", "-"}

validateS3BucketName(name) ==
    (IF Len(name) < 3 \/ Len(name) > 63
     THEN <<FieldError("spec.s3bucket.name", -1,
                       "must be between 3 and 63 characters long")>>
     ELSE <<>>)
    \o (IF \E i \in 1..Len(name) : name[i] \notin s3BucketAllowedCharacters
        THEN <<FieldError("spec.s3bucket.name", -1,
                 "consist only of lowercase letters, numbers, dots (.), and hyphens (-)")>>
        ELSE <<>>)
    \o (IF \/ Len(name) = 0
           \/ name[1] \notin s3BucketLetterOrNumber
           \/ name[Len(name)] \notin s3BucketLetterOrNumber
        THEN <<FieldError("spec.s3bucket.name", -1,
                          "must begin and end with a letter or number")>>
        ELSE <<>>)
    \o (IF IsIP(name)
        THEN <<FieldError("spec.s3bucket.name", -1,
                 "must not be formatted as an IP address (for example, 192.168.5.4)")>>
        ELSE <<>>)

\* S3Bucket.Validate: the errors, in the order the code appends them
Validate(b) ==
    IF ~b.Create THEN <<>>
    ELSE (IF b.ControlPlaneIAMInstanceProfile = EmptyString
          THEN <<FieldError("spec.s3bucket.controlPlaneIAMInstanceProfiles", -1,
                            "can't be empty")>>
          ELSE <<>>)
         \o (IF Len(b.NodesIAMInstanceProfiles) = 0
             THEN <<FieldError("spec.s3bucket.nodesIAMInstanceProfiles", -1,
                               "can't be empty")>>
             ELSE <<>>)
         \o Flatten([i \in 1..Len(b.NodesIAMInstanceProfiles) |->
                IF b.NodesIAMInstanceProfiles[i] = EmptyString
                THEN <<FieldError("spec.s3bucket.nodesIAMInstanceProfiles", i - 1,
                                  "can't be empty")>>
                ELSE <<>>])
         \o (IF b.Name # EmptyString THEN validateS3BucketName(b.Name) ELSE <<>>)

----------------------------------------------------------------------------
(* The service specification: one action per operation of Service          *)

\* The history variable last: whether the operation that just ended is a
\* ReconcileBucket that succeeded with management enabled, with what it sent
\* and left
NoHistory ==
    [reconciled |-> FALSE, policy |-> EmptyString, store |-> InitialStore,
     put |-> FALSE, m |-> NilMachine, bucket |-> EmptyString, key |-> EmptyString]

Reconciled ==
    IF op.name = "ReconcileBucket" /\ err = Nil /\ Len(calls) = 3
    THEN [NoHistory EXCEPT !.reconciled = TRUE, !.policy = calls[3].Policy,
                           !.store = store]
    ELSE NoHistory

\* whether the operation that just ended is a Create that succeeded, with the
\* machine it was for and the bucket and key it wrote
Stored ==
    IF op.name = "Create" /\ err = Nil /\ Len(calls) = 1
    THEN [NoHistory EXCEPT !.put = TRUE, !.m = op.m,
                           !.bucket = calls[1].Bucket, !.key = calls[1].Key]
    ELSE NoHistory

History == IF Reconciled.reconciled THEN Reconciled ELSE Stored

Apply(result, o) ==
    \E r \in {result} :
    /\ r.valid
    /\ store' = r.store
    /\ calls' = r.calls
    /\ err' = r.err
    /\ out' = r.out
    /\ op' = o
    /\ last' = History
    /\ UNCHANGED <<scope, procs, factory>>

Init ==
    /\ scope \in Scopes
    /\ store = InitialStore
    /\ op = NoOp
    /\ calls = <<>>
    /\ err = Nil
    /\ out = EmptyString
    /\ last = NoHistory
    /\ procs = NoProcs
    /\ factory = NoFactory

\* the responses of CreateBucket after which createBucketIfNotExist returns nil
CreateBucketPasses(code) ==
    code = "ok" \/ (code \in AwsErrorCodes /\ bucketAlreadyThere(code))

\* A response is drawn only for a call that the responses before it let the
\* operation reach; "ok" stands in for the response of a call that is not made.
ReconcileBucket ==
    \E createCode \in CreateBucketCodes :
    \E stsCode \in IF CreateBucketPasses(createCode)
                   THEN GetCallerIdentityCodes ELSE {"ok"} :
    \E policyCode \in IF stsCode = "ok" /\ CreateBucketPasses(createCode)
                      THEN PutBucketPolicyCodes ELSE {"ok"} :
        Apply(ReconcileBucketRun(scope, store, createCode, stsCode, policyCode),
              Operation("ReconcileBucket", NilMachine, EmptyString))

DeleteBucket ==
    \E deleteCode \in DeleteBucketCodes :
        Apply(DeleteBucketRun(scope, store, deleteCode),
              Operation("DeleteBucket", NilMachine, EmptyString))

Create ==
    \E m \in Machines, data \in Payloads :
    \E putCode \in IF m.nil \/ data = EmptyString THEN {"ok"} ELSE PutObjectCodes :
        Apply(CreateRun(scope, store, m, data, putCode),
              Operation("Create", m, data))

Delete ==
    \E m \in Machines :
    \E deleteCode \in IF m.nil THEN {"ok"} ELSE DeleteObjectCodes :
        Apply(DeleteRun(scope, store, m, deleteCode),
              Operation("Delete", m, EmptyString))

Next ==
    \/ ReconcileBucket
    \/ DeleteBucket
    \/ Create
    \/ Delete

Spec == Init /\ [][Next]_vars

----------------------------------------------------------------------------
(* The bucket-name specification: Service.bucketName applied to scopes     *)
(* whose candidate names lie on both sides of the length limit             *)

\* how far the lengths of the long namespaces and cluster names drawn lie
\* from half the limit
NameSlack == 2

LongNames(c) == {Repeat(c, 31 + d) : d \in (0 - NameSlack)..NameSlack}

NameScopes ==
    {Scope(BucketSpec(TRUE, name, strCpRole, <<strN1Role>>), namespace, cluster) :
        name \in {EmptyString, strMyBucket},
        namespace \in {EmptyString, strDemo} \cup LongNames("a"),
        cluster \in {strCluster1} \cup LongNames("b")}

InitName ==
    /\ scope \in NameScopes
    /\ store = InitialStore
    /\ op = NoOp
    /\ calls = <<>>
    /\ err = Nil
    /\ out = EmptyString
    /\ last = NoHistory
    /\ procs = NoProcs
    /\ factory = NoFactory

BucketNameCall ==
    \E r \in {bucketName(scope)} :
        /\ op' = Operation("bucketName", NilMachine, EmptyString)
        /\ out' = r.name
        /\ err' = r.err
        /\ calls' = <<>>
        /\ UNCHANGED <<scope, store, last, procs, factory>>

NextName == BucketNameCall

SpecName == InitName /\ [][NextName]_vars

----------------------------------------------------------------------------
(* The bucket-policy specification: Service.bucketPolicy applied to bucket *)
(* specs with management on and every choice of identities                 *)

Identities == {EmptyString, strCpRole, strN1Role, strN2Role}

\* the sequences over S of length at most n
SeqsUpTo(S, n) == UNION {[1..k -> S] : k \in 0..n}

PolicyScopes ==
    {Scope(BucketSpec(TRUE, name, cp, nodes), strDemo, strCluster1) :
        name \in {EmptyString, strMyBucket},
        cp \in Identities \ {strN2Role},
        nodes \in SeqsUpTo(Identities, MaxNodes)}

InitPolicy ==
    /\ scope \in PolicyScopes
    /\ store = InitialStore
    /\ op = NoOp
    /\ calls = <<>>
    /\ err = Nil
    /\ out = EmptyString
    /\ last = NoHistory
    /\ procs = NoProcs
    /\ factory = NoFactory

BucketPolicyCall ==
    \E stsCode \in GetCallerIdentityCodes :
    \E r \in {bucketPolicy(scope, bucketName(scope).name, stsCode)} :
        /\ op' = Operation("bucketPolicy", NilMachine, EmptyString)
        /\ out' = r.policy
        /\ err' = r.err
        /\ calls' = r.calls
        /\ UNCHANGED <<scope, store, last, procs, factory>>

NextPolicy == BucketPolicyCall

SpecPolicy == InitPolicy /\ [][NextPolicy]_vars

----------------------------------------------------------------------------
(* The claims *)

ReconcileCalled == op.name = "ReconcileBucket"

\* the policy that is synthesized for the scope's bucket
SynthesizedPolicy ==
    jsonMarshal(policyDocument(scope.Bucket, bucketName(scope).name, CallerAccount))

\* C1: a ReconcileBucket that succeeds with management enabled has called
\* exactly CreateBucket, GetCallerIdentity and PutBucketPolicy, in this
\* order, on the derived bucket, and the bucket then carries the policy
\* synthesized from the bucket spec, the account and the bucket name, whether
\* the bucket was created by the call or was there before.
C1_ReconcileAttachesPolicy ==
    (ReconcileCalled /\ err = Nil /\ scope.Bucket.Create) =>
        LET name == bucketName(scope).name
        IN  /\ Len(calls) = 3
            /\ calls[1].api = "CreateBucket" /\ calls[1].Bucket = name
            /\ calls[2].api = "GetCallerIdentity"
            /\ calls[3].api = "PutBucketPolicy" /\ calls[3].Bucket = name
            /\ calls[3].Policy = SynthesizedPolicy
            /\ name \in DOMAIN store
            /\ store[name].policy = SynthesizedPolicy

\* a ReconcileBucket succeeded on a bucket that was already there
C1_Witness ==
    /\ ReconcileCalled /\ err = Nil /\ scope.Bucket.Create
    /\ calls[1].code = "BucketAlreadyOwnedByYou"
    /\ store[bucketName(scope).name].policy = SynthesizedPolicy

\* C2: in ReconcileBucket a CreateBucket failure with the code
\* BucketAlreadyOwnedByYou counts as success, and the call goes on to the
\* identity lookup and the policy attach; any other CreateBucket failure, a
\* plain error included, ends the call with an error and no further client
\* call.
C2_CreateBucketFailure ==
    (ReconcileCalled /\ Len(calls) >= 1) =>
        /\ calls[1].api = "CreateBucket"
        /\ calls[1].code = "BucketAlreadyOwnedByYou" =>
              /\ Len(calls) >= 2
              /\ calls[2].api = "GetCallerIdentity"
              /\ calls[2].code = "ok" =>
                    Len(calls) = 3 /\ calls[3].api = "PutBucketPolicy"
              /\ err = Nil <=> (Len(calls) = 3 /\ calls[3].code = "ok")
              /\ err # Nil => err[1] = "ensuring bucket policy"
        /\ calls[1].code \notin {"ok", "BucketAlreadyOwnedByYou"} =>
              /\ err # Nil
              /\ err[1] = "ensuring bucket exists"
              /\ err[2] = "creating S3 bucket"
              /\ Len(calls) = 1

\* CreateBucket failed with an error that is no AWS error
C2_Witness ==
    /\ ReconcileCalled /\ Len(calls) = 1
    /\ calls[1].code = "RequestError"
    /\ calls[1].code \notin AwsErrorCodes
    /\ err # Nil

\* C3: with bucket management disabled, ReconcileBucket and DeleteBucket
\* return success, make no client call and leave the store as it is.
C3_DisabledBucketNoOp ==
    [][(~scope.Bucket.Create /\ op'.name \in {"ReconcileBucket", "DeleteBucket"}) =>
          (err' = Nil /\ calls' = <<>> /\ store' = store)]_vars

\* DeleteBucket ran with management disabled
C3_Witness ==
    /\ ~scope.Bucket.Create
    /\ op.name = "DeleteBucket"
    /\ err = Nil /\ calls = <<>> /\ store = InitialStore

NoFailedCall ==
    \A i \in 1..Len(calls) : calls[i].code \in {"ok", "BucketAlreadyOwnedByYou"}

\* C4: a ReconcileBucket right after a ReconcileBucket that succeeded, with
\* the same bucket spec, succeeds unless a client call of its own fails for
\* another reason than the bucket being there; when it succeeds it sends the
\* policy document the first call sent and leaves the store as the first
\* call left it.
C4_ReconcileIdempotent ==
    (last.reconciled /\ ReconcileCalled) =>
        /\ NoFailedCall => err = Nil
        /\ err = Nil =>
              /\ Len(calls) = 3
              /\ calls[3].Policy = last.policy
              /\ store = last.store

\* two ReconcileBucket calls in a row succeeded
C4_Witness ==
    /\ last.reconciled /\ ReconcileCalled /\ err = Nil
    /\ calls[1].code = "BucketAlreadyOwnedByYou"
    /\ store = last.store

PolicyCalled == op.name = "bucketPolicy"

\* the statements synthesized for the scope's bucket
SynthesizedStatements ==
    policyStatements(scope.Bucket, bucketName(scope).name, CallerAccount)

\* C5: for a bucket spec with a control-plane identity and N node
\* identities the policy has N+1 statements, each with Effect Allow and the
\* one action s3:GetObject; the control plane's has the resource
\* arn:aws:s3:::{bucket}/control-plane/* and each node identity's
\* arn:aws:s3:::{bucket}/node/*, with principals
\* arn:aws:iam::{account}:role/{role}.
C5_PolicyStatements ==
    (PolicyCalled /\ err = Nil) =>
        LET b == scope.Bucket
            name == IF b.Name # EmptyString THEN b.Name ELSE strDemoCluster1
            n == Len(b.NodesIAMInstanceProfiles)
            stmts == SynthesizedStatements
        IN  /\ out = jsonMarshal([Version |-> strPolicyVersion, Statement |-> stmts])
            /\ Len(stmts) = n + 1
            /\ \A i \in 1..Len(stmts) :
                  /\ stmts[i].Effect = strAllow
                  /\ stmts[i].Action = <<strGetObject>>
            /\ stmts[1].Resource = strArnS3 \o name \o strControlPlaneObjects
            /\ stmts[1].Principal =
                  strRoleArnPrefix \o b.ControlPlaneIAMInstanceProfile
            /\ \A i \in 1..n :
                  /\ stmts[i + 1].Resource = strArnS3 \o name \o strNodeObjects
                  /\ stmts[i + 1].Principal =
                        strRoleArnPrefix \o b.NodesIAMInstanceProfiles[i]

\* the policy for cp-role, n1-role and n2-role was synthesized: 3 statements
C5_Witness ==
    /\ PolicyCalled /\ err = Nil
    /\ scope.Bucket.ControlPlaneIAMInstanceProfile = strCpRole
    /\ scope.Bucket.NodesIAMInstanceProfiles = <<strN1Role, strN2Role>>
    /\ Len(SynthesizedStatements) = 3
    /\ SynthesizedStatements[3].Resource = strMyBucketNodeObjects

\* C6: for every bucket spec that Validate accepts, no principal of the
\* synthesized policy is granted both the control-plane/* and the node/*
\* prefix: statements with the same principal have the same resource.
C6_PrefixIsolation ==
    (PolicyCalled /\ err = Nil /\ Validate(scope.Bucket) = <<>>) =>
        \A i, j \in 1..Len(SynthesizedStatements) :
            SynthesizedStatements[i].Principal = SynthesizedStatements[j].Principal
                => SynthesizedStatements[i].Resource = SynthesizedStatements[j].Resource

NameCalled == op.name = "bucketName"

Candidate == scope.Namespace \o <<"-">> \o scope.ClusterName

\* C7: the bucket name is the explicit name when there is one; otherwise the
\* candidate namespace-clusterName when it is shorter than 63 characters
\* (demo-cluster1 for demo and cluster1), and otherwise the 59-character
\* hash of the candidate followed by -k8s.  It is a function of the three
\* inputs.
C7_BucketNameDerivation ==
    NameCalled =>
        /\ err = Nil
        /\ scope.Bucket.Name # EmptyString => out = scope.Bucket.Name
        /\ (scope.Bucket.Name = EmptyString /\ Len(Candidate) < 63) => out = Candidate
        /\ (scope.Bucket.Name = EmptyString /\ Len(Candidate) >= 63) =>
              out = Base36TruncatedHash(Candidate, 59).str \o strK8sSuffix
        /\ (/\ scope.Bucket.Name = EmptyString
            /\ scope.Namespace = strDemo
            /\ scope.ClusterName = strCluster1) => out = strDemoCluster1

\* the name for demo and cluster1 was derived
C7_Witness ==
    /\ NameCalled
    /\ scope.Bucket.Name = EmptyString
    /\ scope.Namespace = strDemo /\ scope.ClusterName = strCluster1
    /\ out = strDemoCluster1

\* C8: without an explicit name the derived name has at most 63
\* characters; for a candidate of 63 characters or more it ends with -k8s
\* after a segment of 59 lowercase letters and digits.
C8_BucketNameLength ==
    (NameCalled /\ scope.Bucket.Name = EmptyString /\ err = Nil) =>
        /\ Len(out) <= 63
        /\ Len(Candidate) >= 63 =>
              /\ HasSuffix(out, strK8sSuffix)
              /\ Len(out) - Len(strK8sSuffix) = 59
              /\ \A i \in 1..59 : out[i] \in Lower \cup Digit

\* the name for a candidate of exactly 63 characters was derived
C8_Witness ==
    /\ NameCalled /\ scope.Bucket.Name = EmptyString /\ err = Nil
    /\ Len(Candidate) = 63
    /\ HasSuffix(out, strK8sSuffix)

CreateCalled == op.name = "Create"

\* C9: Create returns an error and makes no client call when management
\* is disabled, when the machine is nil or when the data is empty; the
\* disabled case comes first and its error, 'bucket management is not
\* enabled', is not the error of a failed PutObject.
C9_CreateGuards ==
    CreateCalled =>
        /\ (~scope.Bucket.Create \/ op.m.nil \/ op.data = EmptyString) =>
              (err # Nil /\ calls = <<>> /\ out = EmptyString)
        /\ ~scope.Bucket.Create =>
              err = <<"requested object creation but bucket management is not enabled">>
        /\ (Len(calls) = 1 /\ calls[1].code # "ok") =>
              /\ calls[1].api = "PutObject"
              /\ err # Nil
              /\ err[1] = "putting object"
              /\ err # <<"requested object creation but bucket management is not enabled">>

\* Create ran with management disabled, a nil machine and empty data
C9_Witness ==
    /\ CreateCalled
    /\ ~scope.Bucket.Create /\ op.m.nil /\ op.data = EmptyString
    /\ err = <<"requested object creation but bucket management is not enabled">>
    /\ calls = <<>>

\* C10 as stated: with bucket management disabled, Create (Put) and Delete
\* return success with no client call.
C10_DisabledObjectCallsSucceed ==
    (~scope.Bucket.Create /\ op.name \in {"Create", "Delete"}) =>
        (err = Nil /\ calls = <<>>)

\* C10 as amended: with bucket management disabled, Create (Put) and Delete
\* return the error 'bucket management is not enabled' with no client call.
C10_DisabledObjectCallsFail ==
    (~scope.Bucket.Create /\ op.name \in {"Create", "Delete"}) =>
        /\ err = <<"requested object creation but bucket management is not enabled">>
        /\ calls = <<>>
        /\ out = EmptyString

\* Delete ran with management disabled, for a machine that is not nil
C10_Witness ==
    /\ ~scope.Bucket.Create
    /\ op.name = "Delete" /\ ~op.m.nil
    /\ err # Nil /\ calls = <<>>

----------------------------------------------------------------------------
(* Concurrent ReconcileBucket calls on one bucket: every call is a process *)
(* that takes one step per client call; what a call keeps between steps is *)
(* local to it                                                             *)

Callers == {1, 2}

Caller(pc, e, cs, policy) ==
    [pc |-> pc, err |-> e, calls |-> cs, policy |-> policy]

InitReconcile ==
    /\ scope \in Scopes
    /\ store = InitialStore
    /\ op = NoOp
    /\ calls = <<>>
    /\ err = Nil
    /\ out = EmptyString
    /\ last = NoHistory
    /\ procs = [p \in Callers |-> Caller("start", Nil, <<>>, EmptyString)]
    /\ factory = NoFactory

\* if !s.bucketManagementEnabled() { return nil }
ReconcileDisabled(p) ==
    /\ procs[p].pc = "start"
    /\ ~bucketManagementEnabled(scope)
    /\ procs' = [procs EXCEPT ![p].pc = "done"]
    /\ UNCHANGED <<scope, store, op, calls, err, out, last, factory>>

\* s.bucketName() and s.createBucketIfNotExist(bucketName)
ReconcileCreate(p) ==
    /\ procs[p].pc = "start"
    /\ bucketManagementEnabled(scope)
    /\ \E bn \in {bucketName(scope)} :
         IF bn.err # Nil
         THEN /\ procs' = [procs EXCEPT ![p] =
                    Caller("done", ErrorsWrap(bn.err, "generating bucket name"),
                           <<>>, EmptyString)]
              /\ UNCHANGED <<store, calls>>
         ELSE \E createCode \in CreateBucketCodes :
              \E c \in {createBucketIfNotExist(store, bn.name, createCode)} :
                 /\ c.valid
                 /\ store' = c.store
                 /\ calls' = calls \o c.calls
                 /\ procs' = [procs EXCEPT ![p] =
                       IF c.err # Nil
                       THEN Caller("done", ErrorsWrap(c.err, "ensuring bucket exists"),
                                   c.calls, EmptyString)
                       ELSE Caller("identity", Nil, c.calls, EmptyString)]
    /\ UNCHANGED <<scope, op, err, out, last, factory>>

\* s.ensureBucketPolicy(bucketName), up to s.bucketPolicy(bucketName)
ReconcileIdentity(p) ==
    /\ procs[p].pc = "identity"
    /\ \E stsCode \in GetCallerIdentityCodes :
       \E b \in {bucketPolicy(scope, bucketName(scope).name, stsCode)} :
          /\ b.valid
          /\ calls' = calls \o b.calls
          /\ procs' = [procs EXCEPT ![p] =
                IF b.err # Nil
                THEN Caller("done",
                            ErrorsWrap(ErrorsWrap(b.err, "generating Bucket policy"),
                                       "ensuring bucket policy"),
                            procs[p].calls \o b.calls, EmptyString)
                ELSE Caller("policy", Nil, procs[p].calls \o b.calls, b.policy)]
    /\ UNCHANGED <<scope, store, op, err, out, last, factory>>

\* s.ensureBucketPolicy(bucketName), from s.S3Client.PutBucketPolicy(input)
ReconcilePolicy(p) ==
    /\ procs[p].pc = "policy"
    /\ \E policyCode \in PutBucketPolicyCodes :
       \E r \in {S3PutBucketPolicy(store, bucketName(scope).name,
                                   procs[p].policy, policyCode)} :
          /\ r.valid
          /\ store' = r.store
          /\ calls' = calls \o r.calls
          /\ procs' = [procs EXCEPT ![p] =
                Caller("done",
                       IF r.err # Nil
                       THEN ErrorsWrap(ErrorsWrap(r.err, "creating S3 bucket policy"),
                                       "ensuring bucket policy")
                       ELSE Nil,
                       procs[p].calls \o r.calls, procs[p].policy)]
    /\ UNCHANGED <<scope, op, err, out, last, factory>>

NextReconcile ==
    \E p \in Callers :
        \/ ReconcileDisabled(p)
        \/ ReconcileCreate(p)
        \/ ReconcileIdentity(p)
        \/ ReconcilePolicy(p)

SpecReconcile == InitReconcile /\ [][NextReconcile]_vars

----------------------------------------------------------------------------
(* The object-store template backend: S3TemplateBackend.applyConfig, called *)
(* through Factory.ApplyConfig.  Concurrent calls through one Factory share *)
(* the backend and its FilePath field, which applyConfig writes and then    *)
(* reads twice without synchronisation, so a read may see the path written  *)
(* by any call that has written one.                                        *)

userDataDirName == strNodeUserdata

IgnitionSchemaVersion == strSchemaVersion

UserDataBucket == strUserdataBucket

\* uuid.New().String(): a fresh identifier for every call
\* the identifier of a call that always is the same one
NewUuidFixed(p) == strUuid1

\* the endings that tell the identifiers of the calls apart
UuidSuffix == <<"1", "2", "3", "4", "5", "6", "7", "8", "9">>

NewUuid(p) == strUuidPrefix \o <<UuidSuffix[p]>>

\* factory.getIgnitionBaseConfig(): a config with the schema version only
getIgnitionBaseConfig ==
    [Version |-> IgnitionSchemaVersion, Replace |-> EmptyString,
     Append |-> EmptyString, Files |-> <<>>, Units |-> <<>>]

\* the base config with Ignition.Config.Replace.Source set
ReplaceConfig(source) == [getIgnitionBaseConfig EXCEPT !.Replace = source]

\* the nil config that is returned with an error
NoConfig ==
    [Version |-> EmptyString, Replace |-> EmptyString, Append |-> EmptyString,
     Files |-> <<>>, Units |-> <<>>]

Applier(pc, userdata, path, key, config, e) ==
    [pc |-> pc, userdata |-> userdata, path |-> path, key |-> key,
     config |-> config, err |-> e]

\* the values a read of factory.FilePath by call p can return
FilePathRead(p) ==
    {factory.FilePath} \cup
    {procs[q].path : q \in {c \in Callers : procs[c].pc # "start"}}

\* the scope of a cluster whose bucket is the backend's
BackendScope ==
    Scope(BucketSpec(TRUE, UserDataBucket, strCpRole, <<strN1Role>>),
          strDemo, strCluster1)

InitApply ==
    /\ scope = BackendScope
    /\ store = (UserDataBucket :> [policy |-> NoPolicy, objects |-> NoObjects])
                  @@ InitialStore
    /\ op = NoOp
    /\ calls = <<>>
    /\ err = Nil
    /\ out = EmptyString
    /\ last = NoHistory
    /\ \E d1, d2 \in Payloads \ {EmptyString} :
          /\ d1 # d2
          /\ procs = [p \in Callers |->
                Applier("start", IF p = 1 THEN d1 ELSE d2, EmptyString,
                        EmptyString, NoConfig, Nil)]
    /\ factory = NoFactory

\* factory.FilePath = strings.Join([]string{userDataDirName, uuid}, "/")
ApplyPath(p) ==
    /\ procs[p].pc = "start"
    /\ \E path \in {JoinStrings(<<userDataDirName, NewUuid(p)>>, <<"/">>)} :
          /\ factory' = [factory EXCEPT !.FilePath = path]
          /\ procs' = [procs EXCEPT ![p].pc = "put", ![p].path = path]
    /\ UNCHANGED <<scope, store, op, calls, err, out, last>>

\* factory.S3Client.PutObject with Key: aws.String(factory.FilePath)
ApplyPut(p) ==
    /\ procs[p].pc = "put"
    /\ \E key \in FilePathRead(p), putCode \in PutObjectCodes :
       \E r \in {S3PutObject(store, UserDataBucket, key, procs[p].userdata, putCode)} :
          /\ r.valid
          /\ store' = r.store
          /\ calls' = calls \o r.calls
          /\ procs' = [procs EXCEPT ![p] =
                IF r.err # Nil
                THEN Applier("done", procs[p].userdata, procs[p].path, key, NoConfig,
                             ErrorsNew("failed to put object to bucket"))
                ELSE Applier("url", procs[p].userdata, procs[p].path, key, NoConfig,
                             Nil)]
    /\ UNCHANGED <<scope, op, err, out, last, factory>>

\* userDataUrl with Path: factory.FilePath, and the config that is returned
ApplyUrl(p) ==
    /\ procs[p].pc = "url"
    /\ \E path \in FilePathRead(p) :
          procs' = [procs EXCEPT ![p].pc = "done",
                                 ![p].config =
                                     ReplaceConfig(urlString(strS3, UserDataBucket, path))]
    /\ UNCHANGED <<scope, store, op, calls, err, out, last, factory>>

NextApply ==
    \E p \in Callers :
        \/ ApplyPath(p)
        \/ ApplyPut(p)
        \/ ApplyUrl(p)

SpecApply == InitApply /\ [][NextApply]_vars

----------------------------------------------------------------------------
(* The document factory: Factory.GenerateUserData with the template of the *)
(* backend, getStorage, getSystemd and the validation gate                 *)

DefaultFileMode == 420    \* 0644

KubernetesDefaultVersion == strV1174

\* baseIgnitionUri: the template path of each known version
baseIgnitionUri ==
    (strV11511 :> strTemplate11511)
    @@ (strV1168 :> strTemplate1168)
    @@ (strV1174 :> strTemplate1174)

\* variant: a version that is not in the table is an error
getIgnitionConfigTemplateStrict(node) ==
    IF node.Version \in DOMAIN baseIgnitionUri
    THEN [config |-> [getIgnitionBaseConfig EXCEPT
                        !.Append = urlString(strS3, UserDataBucket,
                                             baseIgnitionUri[node.Version])],
          err |-> Nil]
    ELSE [config |-> NoConfig,
          err |-> ErrorsNew("kubernetes version is not supported.")]

\* S3TemplateBackend.getIgnitionConfigTemplate: never an error
getIgnitionConfigTemplate(node) ==
    LET templateConfigUri ==
            IF node.Version \in DOMAIN baseIgnitionUri
            THEN baseIgnitionUri[node.Version]
            ELSE baseIgnitionUri[KubernetesDefaultVersion]
    IN  [config |-> [getIgnitionBaseConfig EXCEPT
                        !.Append = urlString(strS3, UserDataBucket, templateConfigUri)],
         err |-> Nil]

OctalDigit == {"0", "1", "2", "3", "4", "5", "6", "7"}

\* the value of a sequence of octal digits
RECURSIVE OctalValue(_)
OctalValue(digits) ==
    IF Len(digits) = 0 THEN 0
    ELSE 8 * OctalValue(SubSeq(digits, 1, Len(digits) - 1))
         + DigitValue[digits[Len(digits)]]

\* strconv.ParseInt(s, 8, 32): an optional sign, then octal digits, and a
\* value that fits 32 bits
ParseInt8(s) ==
    LET signed == Len(s) > 0 /\ s[1] \in {"+", "-"}
        digits == IF signed THEN Tail(s) ELSE s
        value == IF signed /\ s[1] = "-" THEN 0 - OctalValue(digits)
                 ELSE OctalValue(digits)
    IN  IF Len(digits) = 0 \/ \E i \in 1..Len(digits) : digits[i] \notin OctalDigit
        THEN [value |-> 0, err |-> ErrorsNew("strconv.ParseInt: invalid syntax")]
        ELSE IF value > 2147483647 \/ value < 0 - 2147483647 - 1
        THEN [value |-> 0, err |-> ErrorsNew("strconv.ParseInt: value out of range")]
        ELSE [value |-> value, err |-> Nil]

\* the characters dataurl.EscapeString leaves as they are
dataurlUnreserved ==
    Lower \cup Digit \cup {"A", "B", "C", "D", "E", "F", "-", "_", ".", "~"}

\* the percent-encoding of the other characters that file contents hold
dataurlEscapeChar(c) ==
    CASE c \in dataurlUnreserved -> <<c>>
      [] c = " " -> urlEscSpace
      [] c = "%" -> urlEscPercent
      [] c = "/" -> dataurlEscSlash
      [] c = "=" -> dataurlEscEquals

\* dataurl.EscapeString(content)
dataurlEscapeString(content) ==
    Flatten([i \in 1..Len(content) |-> dataurlEscapeChar(content[i])])

\* (&url.URL{Scheme: "data", Opaque: "," + escaped}).String()
dataUrlString(content) == strDataScheme \o <<",">> \o dataurlEscapeString(content)

\* variant: every entry gets the default mode
StorageFileDefaultMode(file, mode) ==
    [Filesystem |-> strRoot, Path |-> file.Path, Overwrite |-> TRUE,
     Append |-> FALSE, Mode |-> DefaultFileMode,
     Source |-> IF file.Content # EmptyString THEN dataUrlString(file.Content)
                ELSE EmptyString]

\* the storage entry of a file whose mode is already known
StorageFile(file, mode) ==
    [Filesystem |-> strRoot, Path |-> file.Path, Overwrite |-> TRUE,
     Append |-> FALSE, Mode |-> mode,
     Source |-> IF file.Content # EmptyString THEN dataUrlString(file.Content)
                ELSE EmptyString]

\* variant: the error of strconv.ParseInt is dropped
getStorageIgnoringErrors(files) ==
    [Files |-> [i \in 1..Len(files) |->
                  StorageFile(files[i],
                              IF files[i].Permissions # EmptyString
                              THEN ParseInt8(files[i].Permissions).value
                              ELSE DefaultFileMode)],
     err |-> Nil]

\* getStorage: one entry per file in order; the first permissions string that
\* does not parse ends it with the error and an empty storage
RECURSIVE getStorage(_)
getStorage(files) ==
    IF Len(files) = 0 THEN [Files |-> <<>>, err |-> Nil]
    ELSE LET file == Head(files)
             parsed == IF file.Permissions # EmptyString
                       THEN ParseInt8(file.Permissions)
                       ELSE [value |-> DefaultFileMode, err |-> Nil]
         IN  IF parsed.err # Nil THEN [Files |-> <<>>, err |-> parsed.err]
             ELSE LET rest == getStorage(Tail(files))
                  IN  IF rest.err # Nil THEN [Files |-> <<>>, err |-> rest.err]
                      ELSE [Files |-> <<StorageFile(file, parsed.value)>> \o rest.Files,
                            err |-> Nil]

\* getSystemd: one unit per service in order, with its drop-ins in order
getSystemd(services) ==
    [i \in 1..Len(services) |->
        [Name |-> services[i].Name,
         Enabled |-> services[i].Enabled,
         Contents |-> services[i].Content,
         Dropins |-> [j \in 1..Len(services[i].Dropins) |->
                        [Name |-> services[i].Dropins[j].Name,
                         Contents |-> services[i].Dropins[j].Content]]]]

\* validationReport.IsFatal(): the report has an entry of the kind error
IsFatal(report) == \E i \in 1..Len(report) : report[i].Kind = "error"

\* validationReport.String(): the entries' messages
ReportString(report) == [i \in 1..Len(report) |-> report[i].Message]

\* variant: the validation report is not looked at
BuildIgnitionConfigUnvalidated(config, node, report) ==
    LET storage == getStorage(node.Files)
    IN  IF storage.err # Nil THEN [config |-> NoConfig, err |-> storage.err]
        ELSE [config |-> [config EXCEPT !.Units = getSystemd(node.Services),
                                        !.Files = storage.Files],
              err |-> Nil]

\* Factory.BuildIgnitionConfig; report is what validate.ValidateWithoutSource
\* finds in the assembled config
BuildIgnitionConfig(config, node, report) ==
    LET storage == getStorage(node.Files)
        built == [config EXCEPT !.Units = getSystemd(node.Services),
                                !.Files = storage.Files]
    IN  IF storage.err # Nil THEN [config |-> NoConfig, err |-> storage.err]
        ELSE IF IsFatal(report)
        THEN [config |-> NoConfig, err |-> ReportString(report)]
        ELSE [config |-> built, err |-> Nil]

\* Factory.GenerateUserData
GenerateUserDataRun(node, report) ==
    LET template == getIgnitionConfigTemplate(node)
    IN  IF template.err # Nil THEN [config |-> NoConfig, err |-> template.err]
        ELSE BuildIgnitionConfig(template.config, node, report)

\* The inputs: files, services, versions and validation reports

MaxFiles == 2

File(path, content, permissions) ==
    [Path |-> path, Content |-> content, Permissions |-> permissions]

Files ==
    {File(strEtcFoo, strBar, str0640),
     File(strEtcEmpty, EmptyString, EmptyString),
     File(strEtcMotd, strMotd, strMinus7),
     File(strEtcBad, strBadContent, str888)}

Services ==
    {<<>>,
     <<[Name |-> strKubeadmService, Enabled |-> TRUE, Content |-> strUnitSection,
        Dropins |-> <<[Name |-> strDropinName, Content |-> strServiceSection]>>]>>}

Versions == {EmptyString, strV11511, strV1168, strV1174, strV9}

Nodes ==
    {[Files |-> files, Services |-> services, Version |-> version] :
        files \in SeqsUpTo(Files, MaxFiles),
        services \in Services,
        version \in Versions}

Finding(kind, message) == [Kind |-> kind, Message |-> message]

\* reports without findings, with findings that are not fatal, and with an error
ValidationReports ==
    {<<>>,
     <<Finding("warning", "unit has no install section")>>,
     <<Finding("error", "invalid file mode")>>,
     <<Finding("info", "note"), Finding("warning", "unit has no install section"),
       Finding("error", "path not absolute")>>}

\* the node and the report are drawn before GenerateUserData runs on them
InitIgnition ==
    /\ scope = BackendScope
    /\ store = InitialStore
    /\ \E node \in Nodes, report \in ValidationReports :
          op = [name |-> "none", node |-> node, report |-> report]
    /\ calls = <<>>
    /\ err = Nil
    /\ out = NoConfig
    /\ last = NoHistory
    /\ procs = NoProcs
    /\ factory = NoFactory

GenerateUserData ==
    \E r \in {GenerateUserDataRun(op.node, op.report)} :
        /\ op' = [op EXCEPT !.name = "GenerateUserData"]
        /\ out' = r.config
        /\ err' = r.err
        /\ UNCHANGED <<scope, store, calls, last, procs, factory>>

NextIgnition == GenerateUserData

SpecIgnition == InitIgnition /\ [][NextIgnition]_vars

----------------------------------------------------------------------------
(* Calls of S3TemplateBackend.applyConfig one after another through one    *)
(* Factory: every call runs to its return before the next one starts.  The *)
(* calls that have returned are kept in procs, in the order of the calls.  *)

MaxApplies == 3

\* S3TemplateBackend.applyConfig(userdata) with the identifier uuid.New()
\* returned and the response of PutObject
applyConfig(fac, st, userdata, uuid, putCode) ==
    LET path == JoinStrings(<<userDataDirName, uuid>>, <<"/">>)
        fac1 == [fac EXCEPT !.FilePath = path]
        r == S3PutObject(st, UserDataBucket, fac1.FilePath, userdata, putCode)
    IN  IF r.err # Nil
        THEN [factory |-> fac1, store |-> r.store, calls |-> r.calls,
              config |-> NoConfig,
              err |-> ErrorsNew("failed to put object to bucket"),
              valid |-> r.valid]
        ELSE [factory |-> fac1, store |-> r.store, calls |-> r.calls,
              config |-> ReplaceConfig(urlString(strS3, UserDataBucket,
                                                 fac1.FilePath)),
              err |-> Nil, valid |-> r.valid]

\* S3TemplateBackend.getFilePath()
getFilePath(fac) == fac.FilePath

InitBackend ==
    /\ scope = BackendScope
    /\ store = (UserDataBucket :> [policy |-> NoPolicy, objects |-> NoObjects])
                  @@ InitialStore
    /\ op = NoOp
    /\ calls = <<>>
    /\ err = Nil
    /\ out = NoConfig
    /\ last = NoHistory
    /\ procs = NoProcs
    /\ factory = NoFactory

ApplyConfig ==
    /\ Len(procs) < MaxApplies
    /\ \E userdata \in Payloads, putCode \in PutObjectCodes :
       \E r \in {applyConfig(factory, store, userdata,
                             NewUuid(Len(procs) + 1), putCode)} :
          /\ r.valid
          /\ op' = [NoOp EXCEPT !.name = "ApplyConfig", !.data = userdata]
          /\ factory' = r.factory
          /\ store' = r.store
          /\ calls' = r.calls
          /\ out' = r.config
          /\ err' = r.err
          /\ procs' = Append(procs,
                Applier("done", userdata, getFilePath(r.factory),
                        getFilePath(r.factory), r.config, r.err))
    /\ UNCHANGED <<scope, last>>

NextBackend == ApplyConfig

SpecBackend == InitBackend /\ [][NextBackend]_vars

----------------------------------------------------------------------------
(* validateS3BucketName on its own, over names of every kind: short ones   *)
(* over a small alphabet, names of 63 and 64 characters, and IP literals   *)

MaxNameLen == 4

NameCharacters == {"a", "z", "0", "5", ".", "-", "A"}

NamesOfLen(n) == [1..n -> NameCharacters]

BucketNameInputs ==
    UNION {NamesOfLen(n) : n \in 2..MaxNameLen}
    \cup {Repeat("a", 63), Repeat("a", 64), Repeat("0", 63),
          strIpOnes, strIpTen, strIpLike, strIpLoopback6}

InitValidate ==
    /\ scope = BackendScope
    /\ store = InitialStore
    /\ op \in {[name |-> "none", bucketName |-> n] : n \in BucketNameInputs}
    /\ calls = <<>>
    /\ err = Nil
    /\ out = <<>>
    /\ last = NoHistory
    /\ procs = NoProcs
    /\ factory = NoFactory

ValidateBucketName ==
    /\ op.name = "none"
    /\ op' = [op EXCEPT !.name = "validateS3BucketName"]
    /\ out' = validateS3BucketName(op.bucketName)
    /\ UNCHANGED <<scope, store, calls, err, last, procs, factory>>

NextValidate == ValidateBucketName

SpecValidate == InitValidate /\ [][NextValidate]_vars

----------------------------------------------------------------------------
(* Repeated reconciliation: ReconcileBucket is called again and again for  *)
(* a scope with bucket management enabled, starting with the bucket absent,*)
(* present without a policy, or present with its policy.  The controller   *)
(* calls ReconcileBucket on every reconciliation of the cluster, and the   *)
(* client's calls succeed in the end: a ReconcileBucket in which all of    *)
(* them succeed is not put off forever.                                    *)

ManagedScopes ==
    {sc \in Scopes : bucketManagementEnabled(sc) /\ bucketName(sc).err = Nil}

\* the store with the scope's bucket in it, carrying the policy
StoreWithBucket(sc, policy) ==
    (bucketName(sc).name :> [policy |-> policy, objects |-> NoObjects])
        @@ InitialStore

BucketStates(sc) ==
    {InitialStore,
     StoreWithBucket(sc, NoPolicy),
     StoreWithBucket(sc, jsonMarshal(policyDocument(sc.Bucket, bucketName(sc).name,
                                                    CallerAccount)))}

InitConverge ==
    /\ scope \in ManagedScopes
    /\ store \in BucketStates(scope)
    /\ op = NoOp
    /\ calls = <<>>
    /\ err = Nil
    /\ out = EmptyString
    /\ last = NoHistory
    /\ procs = NoProcs
    /\ factory = NoFactory

\* a ReconcileBucket that returns nil: CreateBucket succeeds or says that the
\* bucket is there, GetCallerIdentity and PutBucketPolicy succeed
ReconcileSucceeds ==
    /\ err' = Nil
    /\ \E createCode \in {code \in CreateBucketCodes : CreateBucketPasses(code)} :
          Apply(ReconcileBucketRun(scope, store, createCode, "ok", "ok"),
                Operation("ReconcileBucket", NilMachine, EmptyString))

NextConverge == ReconcileBucket

SpecConverge ==
    InitConverge /\ [][NextConverge]_vars /\ WF_vars(ReconcileSucceeds)

ObjectCalled == op.name \in {"Create", "Delete"}

\* C11: with bucket management enabled, Create (Put) and Delete for a
\* machine whose name is empty return an error and make no client call:
\* no PutObject and no DeleteObject is issued.
C11_EmptyMachineNameRejected ==
    (/\ scope.Bucket.Create
     /\ ObjectCalled
     /\ ~op.m.nil
     /\ op.m.Name = EmptyString) => (err # Nil /\ calls = <<>>)

ReconcilesDone ==
    /\ procs # NoProcs
    /\ DOMAIN procs = Callers
    /\ \A p \in Callers : "policy" \in DOMAIN procs[p] /\ procs[p].pc = "done"

\* C13: when two concurrent ReconcileBucket calls for the same bucket spec
\* have both returned, in whatever order their client calls were served,
\* and no client call failed for another reason than the bucket being owned
\* already, both calls have returned success and the store is what a single
\* call leaves: the bucket is there with the synthesized policy.
C13_ConcurrentReconcile ==
    (ReconcilesDone /\ scope.Bucket.Create /\ NoFailedCall) =>
        /\ \A p \in Callers : procs[p].err = Nil
        /\ store = ReconcileBucketRun(scope, InitialStore, "ok", "ok", "ok").store
        /\ bucketName(scope).name \in DOMAIN store
        /\ store[bucketName(scope).name].policy = SynthesizedPolicy

\* both calls created the bucket before either attached the policy, and the
\* second CreateBucket was answered with BucketAlreadyOwnedByYou
C13_Witness ==
    /\ ReconcilesDone /\ scope.Bucket.Create /\ NoFailedCall
    /\ Len(calls) = 6
    /\ calls[1].api = "CreateBucket" /\ calls[2].api = "CreateBucket"
    /\ calls[2].code = "BucketAlreadyOwnedByYou"
    /\ procs[2].calls[1] = calls[1]
    /\ \A p \in Callers : procs[p].err = Nil

\* both concurrent ApplyConfig calls have returned
AppliesDone ==
    /\ procs # NoProcs
    /\ DOMAIN procs = Callers
    /\ \A p \in Callers : "userdata" \in DOMAIN procs[p] /\ procs[p].pc = "done"

\* C14: when two concurrent ApplyConfig calls through one Factory with
\* different payloads have both returned success, each has written its
\* payload to the path generated for it, and the replace URL each returned
\* names that path, where the object holds that call's own payload.
C14_ConcurrentApplyConfig ==
    (AppliesDone /\ \A p \in Callers : procs[p].err = Nil) =>
        \A p \in Callers :
            /\ procs[p].key = procs[p].path
            /\ procs[p].config.Replace =
                  strUserdataUrlPrefix \o procs[p].path
            /\ procs[p].path \in DOMAIN store[UserDataBucket].objects
            /\ store[UserDataBucket].objects[procs[p].path] = procs[p].userdata

\* the policy of the bucket named name in the store st, none when it is absent
PolicyOf(st, name) == IF name \in DOMAIN st THEN st[name].policy ELSE NoPolicy

\* whether the error chain e carries the context text
HasContext(e, text) == \E i \in 1..Len(e) : e[i] = text

\* C15: a ReconcileBucket in which GetCallerIdentity fails does not call
\* PutBucketPolicy and returns an error with the context 'getting account
\* ID', and the bucket is present afterwards with the policy it had before
\* (none for a bucket the call created); one in which PutBucketPolicy fails
\* returns an error with the context 'creating S3 bucket policy'; neither
\* error carries the other's context.
C15_PolicyFailures ==
    [][LET name == bucketName(scope).name
       IN  /\ (op'.name = "ReconcileBucket" /\ Len(calls') >= 2 /\ calls'[2].code # "ok") =>
                 /\ calls'[2].api = "GetCallerIdentity"
                 /\ Len(calls') = 2
                 /\ err' # Nil
                 /\ HasContext(err', "getting account ID")
                 /\ ~HasContext(err', "creating S3 bucket policy")
                 /\ name \in DOMAIN store'
                 /\ store'[name].policy = PolicyOf(store, name)
           /\ (op'.name = "ReconcileBucket" /\ Len(calls') = 3 /\ calls'[3].code # "ok") =>
                 /\ calls'[3].api = "PutBucketPolicy"
                 /\ err' # Nil
                 /\ HasContext(err', "creating S3 bucket policy")
                 /\ ~HasContext(err', "getting account ID")
                 /\ name \in DOMAIN store'
                 /\ store'[name].policy = PolicyOf(store, name)]_vars

\* GetCallerIdentity failed after the call had created the bucket
C15_Witness ==
    /\ ReconcileCalled /\ Len(calls) = 2
    /\ calls[1].code = "ok" /\ calls[2].code = "RequestError"
    /\ HasContext(err, "getting account ID")
    /\ bucketName(scope).name \in DOMAIN store
    /\ store[bucketName(scope).name].policy = NoPolicy

\* C16: with management enabled DeleteBucket makes exactly one client
\* call, DeleteBucket on the derived bucket name, and no call that lists or
\* deletes objects; when the store rejects it, DeleteBucket returns an error
\* and the store, with the bucket, its policy and its objects, is unchanged.
C16_DeleteBucketOnce ==
    [][(scope.Bucket.Create /\ op'.name = "DeleteBucket") =>
          /\ Len(calls') = 1
          /\ calls'[1].api = "DeleteBucket"
          /\ calls'[1].Bucket = bucketName(scope).name
          /\ calls'[1].code = "ok" => err' = Nil
          /\ calls'[1].code # "ok" =>
                /\ err' # Nil
                /\ err'[1] = "deleting S3 bucket"
                /\ store' = store]_vars

\* the store rejected the delete of a bucket that holds an object
C16_Witness ==
    /\ scope.Bucket.Create /\ op.name = "DeleteBucket"
    /\ Len(calls) = 1 /\ calls[1].code = "BucketNotEmpty"
    /\ err # Nil
    /\ bucketName(scope).name \in DOMAIN store
    /\ DOMAIN store[bucketName(scope).name].objects # {}

\* the stores st and after differ at most in the object key of bucket
SameButObject(st, after, bucket, key) ==
    /\ DOMAIN after = DOMAIN st
    /\ \A b \in DOMAIN st :
          /\ after[b].policy = st[b].policy
          /\ \A k \in (DOMAIN st[b].objects \cup DOMAIN after[b].objects) :
                (b # bucket \/ k # key) =>
                    /\ k \in DOMAIN st[b].objects
                    /\ k \in DOMAIN after[b].objects
                    /\ after[b].objects[k] = st[b].objects[k]

\* C17: with management enabled, a machine with a name and, for Create,
\* data that is not empty, Create (Put) and Delete each make exactly one
\* client call, PutObject respectively DeleteObject on the key role/name of
\* the derived bucket, whether it succeeds or fails; a failed call is not
\* tried again, its error is returned, and no other object, no bucket and no
\* policy is touched.
C17_OneCallPerObjectOperation ==
    [][LET bucket == bucketName(scope).name
           key == op'.m.Role \o <<"/">> \o op'.m.Name
       IN  (/\ scope.Bucket.Create
            /\ op'.name \in {"Create", "Delete"}
            /\ ~op'.m.nil /\ op'.m.Name # EmptyString
            /\ op'.name = "Create" => op'.data # EmptyString) =>
               /\ Len(calls') = 1
               /\ calls'[1].api = (IF op'.name = "Create" THEN "PutObject"
                                                          ELSE "DeleteObject")
               /\ calls'[1].Bucket = bucket
               /\ calls'[1].Key = key
               /\ calls'[1].Body = op'.data
               /\ calls'[1].code = "ok" => err' = Nil
               /\ calls'[1].code # "ok" => (err' # Nil /\ store' = store)
               /\ SameButObject(store, store', bucket, key)]_vars

\* a PutObject for cp-0 failed and was not tried again
C17_Witness ==
    /\ scope.Bucket.Create /\ CreateCalled
    /\ op.m.Name = strCp0
    /\ Len(calls) = 1
    /\ calls[1].code = "RequestError"
    /\ calls[1].Key = strCp0Key
    /\ err # Nil /\ err[1] = "putting object"

\* whether the string s contains the string part
Contains(s, part) ==
    \E i \in 1..(Len(s) - Len(part) + 1) : SubSeq(s, i, i + Len(part) - 1) = part

\* C18: with management enabled, ReconcileBucket never attaches a policy
\* that has a principal with an empty role name, arn:aws:iam::{account}:role/
\* with nothing after the slash, even when the control-plane identity or a
\* node identity of the bucket spec is empty.
C18_NoEmptyRolePrincipal ==
    (ReconcileCalled /\ scope.Bucket.Create) =>
        \A i \in 1..Len(calls) :
            calls[i].api = "PutBucketPolicy" =>
                ~Contains(calls[i].Policy, strEmptyRoleArn)

GenerateCalled == op.name = "GenerateUserData"

\* the characters that the percent-encodings in data references stand for
PercentDecoded ==
    (hexSpace :> " ") @@ (hexPercent :> "%") @@ (hexSlash :> "/") @@ (hexEquals :> "=")

\* the string that a percent-encoded string stands for
RECURSIVE PercentDecode(_)
PercentDecode(s) ==
    IF Len(s) = 0 THEN EmptyString
    ELSE IF s[1] = "%"
    THEN <<PercentDecoded[SubSeq(s, 2, 3)]>> \o PercentDecode(SubSeq(s, 4, Len(s)))
    ELSE <<s[1]>> \o PercentDecode(Tail(s))

\* the content that the inline data reference source stands for
DataUrlDecode(source) == PercentDecode(SubSeq(source, 7, Len(source)))

\* C19: a GenerateUserData that succeeds has one storage entry per file of
\* the node, in the files' order, each on the filesystem root with the
\* file's path; the mode is 0644 (420) for a file without permissions string
\* and else the base-8 value of the string (416 for 0640); the entry has an
\* inline data reference that decodes to the file's content when the
\* content is not empty, and no content reference when it is empty.
C19_StorageEntries ==
    (GenerateCalled /\ err = Nil) =>
        /\ Len(out.Files) = Len(op.node.Files)
        /\ \A i \in 1..Len(op.node.Files) :
              LET file == op.node.Files[i]
                  entry == out.Files[i]
              IN  /\ entry.Filesystem = strRoot
                  /\ entry.Path = file.Path
                  /\ file.Permissions = EmptyString => entry.Mode = 6 * 64 + 4 * 8 + 4
                  /\ file.Permissions = str0640 => entry.Mode = 416
                  /\ file.Permissions = strMinus7 => entry.Mode = 0 - 7
                  /\ file.Permissions \in {EmptyString, str0640, strMinus7}
                  /\ file.Content # EmptyString =>
                        /\ SubSeq(entry.Source, 1, 6) = strDataPrefix
                        /\ DataUrlDecode(entry.Source) = file.Content
                  /\ file.Content = EmptyString => entry.Source = EmptyString

\* the document for the one file /etc/foo with content bar and permissions
\* 0640, and no services
C19_Witness ==
    /\ GenerateCalled /\ err = Nil
    /\ op.node.Files = <<File(strEtcFoo, strBar, str0640)>>
    /\ op.node.Services = <<>>
    /\ Len(out.Files) = 1
    /\ out.Files[1].Mode = 416
    /\ out.Files[1].Source = strDataBar

\* the validation report of the call has a fatal finding
FatalFinding == \E i \in 1..Len(op.report) : op.report[i].Kind = "error"

\* every permissions string of the node's files parses
PermissionsParse ==
    \A i \in 1..Len(op.node.Files) :
        op.node.Files[i].Permissions \in {EmptyString, str0640, strMinus7}

\* C20: GenerateUserData never returns success with a document when the
\* validation of the assembled document has a fatal finding: it returns an
\* error and no document; findings that are not fatal do not keep the
\* document from being returned.
C20_ValidationGate ==
    GenerateCalled =>
        /\ FatalFinding => (err # Nil /\ out = NoConfig)
        /\ (~FatalFinding /\ PermissionsParse) =>
              /\ err = Nil
              /\ out # NoConfig
              /\ out.Version = strSchemaVersion
              /\ Len(out.Files) = Len(op.node.Files)
              /\ Len(out.Units) = Len(op.node.Services)

\* a document with files that parse was discarded for a fatal finding
C20_Witness ==
    /\ GenerateCalled
    /\ FatalFinding /\ PermissionsParse
    /\ Len(op.node.Files) = 2
    /\ err # Nil /\ out = NoConfig

\* whether s is an optional sign followed by one or more octal digits
IsBase8Integer(s) ==
    LET digits == IF Len(s) > 0 /\ s[1] \in {"+", "-"} THEN Tail(s) ELSE s
    IN  /\ Len(digits) > 0
        /\ \A i \in 1..Len(digits) :
              digits[i] \in {"0", "1", "2", "3", "4", "5", "6", "7"}

\* a file of the node has a permissions string that is no base-8 integer
BadPermissions ==
    \E i \in 1..Len(op.node.Files) :
        /\ op.node.Files[i].Permissions # EmptyString
        /\ ~IsBase8Integer(op.node.Files[i].Permissions)

\* C21: when a file of the node has a permissions string that is not empty
\* and does not parse as a base-8 integer, GenerateUserData returns an error
\* and no document, wherever the file is in the sequence and whatever the
\* other files are.
C21_BadPermissionsFail ==
    (GenerateCalled /\ BadPermissions) => (err # Nil /\ out = NoConfig)

\* the second of two files has the permissions 888, the first is valid and
\* the validation has nothing fatal
C21_Witness ==
    /\ GenerateCalled
    /\ Len(op.node.Files) = 2
    /\ op.node.Files[1].Permissions = str0640
    /\ op.node.Files[2].Permissions = str888
    /\ ~FatalFinding
    /\ err # Nil /\ out = NoConfig

\* C22: the template lookup never fails the build: for a version of the
\* table of known versions the base document's append reference is
\* s3://{UserDataBucket}/{the version's template path}, for every other
\* version, the empty one included, it is the reference of the default
\* version v1.17.4, and no version makes GenerateUserData return an error.
C22_TemplateLookup ==
    GenerateCalled =>
        /\ (~FatalFinding /\ PermissionsParse) => err = Nil
        /\ err = Nil =>
              /\ out.Replace = EmptyString
              /\ op.node.Version = strV11511 =>
                    out.Append = strTemplateUrl11511
              /\ op.node.Version = strV1168 =>
                    out.Append = strTemplateUrl1168
              /\ op.node.Version \notin {strV11511, strV1168} =>
                    out.Append = strTemplateUrl1174

\* a document was built for a version that is not in the table
C22_Witness ==
    /\ GenerateCalled /\ err = Nil
    /\ op.node.Version = strV9
    /\ out.Append = strTemplateUrl1174

----------------------------------------------------------------------------
(* The sequential calls of the backend's ApplyConfig *)

ApplyCalled == op.name = "ApplyConfig"

\* the calls that have returned without an error
Applied == {i \in 1..Len(procs) : procs[i].err = Nil}

(* C23: a call of the backend's ApplyConfig that succeeds has made exactly  *)
(* one client call, a PutObject of the payload to a key under the          *)
(* directory node-userdata in UserDataBucket, and returns a document whose *)
(* replace reference is s3://{UserDataBucket}/{key} and whose append       *)
(* reference is empty; FilePath() then is that key, the object is in the   *)
(* bucket, and all the calls that have succeeded so far used different     *)
(* keys and still have their own payload stored.                           *)
C23_ApplyConfigFreshPath ==
    (ApplyCalled /\ err = Nil) =>
        /\ Len(calls) = 1
        /\ calls[1].api = "PutObject"
        /\ calls[1].Bucket = UserDataBucket
        /\ calls[1].Body = op.data
        /\ HasPrefix(calls[1].Key, userDataDirName \o <<"/">>)
        /\ Len(calls[1].Key) > Len(userDataDirName) + 1
        /\ out.Replace = strUserdataUrlPrefix \o calls[1].Key
        /\ out.Append = EmptyString
        /\ getFilePath(factory) = calls[1].Key
        /\ \A i, j \in Applied : i # j => procs[i].key # procs[j].key
        /\ \A i \in Applied :
              /\ procs[i].key \in DOMAIN store[UserDataBucket].objects
              /\ store[UserDataBucket].objects[procs[i].key] = procs[i].userdata

C23_Witness ==
    /\ ApplyCalled
    /\ err = Nil
    /\ Cardinality(Applied) >= 2
    /\ \E i, j \in Applied : procs[i].userdata # procs[j].userdata

(* C26: a call of ApplyConfig whose PutObject fails returns an error and   *)
(* no document and leaves FilePath() at the value it had before the call,  *)
(* so that FilePath() is empty or the key of an object that was written.   *)
C26_FilePathKeptOnError ==
    [][(op'.name = "ApplyConfig" /\ err' # Nil) =>
          /\ out' = NoConfig
          /\ getFilePath(factory') = getFilePath(factory)
          /\ \/ getFilePath(factory') = EmptyString
             \/ getFilePath(factory') \in DOMAIN store'[UserDataBucket].objects]_vars

----------------------------------------------------------------------------
(* The rules for bucket names *)

ValidateCalled == op.name = "validateS3BucketName"

\* the rules as they are stated: length, characters, first and last
\* character, and no IP literal
BucketNameRules(name) ==
    /\ Len(name) >= 3
    /\ Len(name) <= 63
    /\ \A i \in 1..Len(name) : name[i] \in Lower \cup Digit \cup {".", "-"}
    /\ name[1] \in Lower \cup Digit
    /\ name[Len(name)] \in Lower \cup Digit
    /\ ~IsIP(name)

(* C24: validateS3BucketName returns no error exactly for the names of 3   *)
(* to 63 characters that consist of lowercase letters, the digits 0 to 9,  *)
(* dots and hyphens, begin and end with a letter or a digit and are not an *)
(* IP literal, and at least one error for every other name.                *)
C24_BucketNameRules ==
    ValidateCalled => (out = <<>> <=> BucketNameRules(op.bucketName))

----------------------------------------------------------------------------
(* Repeated reconciliation *)

BucketPresent == bucketName(scope).name \in DOMAIN store

PolicyAttached ==
    /\ BucketPresent
    /\ store[bucketName(scope).name].policy = SynthesizedPolicy

\* a step that leaves the scope's bucket in the store
BucketKept == \E name \in {bucketName(scope).name} : name \in DOMAIN store'

\* a step that leaves the scope's bucket in the store with the policy it has
PolicyKept ==
    \E name \in {bucketName(scope).name} :
        /\ name \in DOMAIN store'
        /\ store'[name].policy = store[name].policy

(* C25: with management enabled, whether the bucket starts absent, present *)
(* without a policy or with its policy attached, repeated ReconcileBucket  *)
(* calls whose client calls succeed in the end bring the bucket to carry   *)
(* the synthesized policy for good; no call removes the policy once it is  *)
(* attached, and no call makes a bucket that is present absent.            *)
C25_ReconcileConverges ==
    /\ <>[]PolicyAttached
    /\ [][PolicyAttached => PolicyKept]_vars
    /\ [][BucketPresent => BucketKept]_vars

\* a ReconcileBucket that found no bucket, created it and attached the policy
C25_Witness ==
    /\ ReconcileCalled
    /\ err = Nil
    /\ calls[1].code = "ok"
    /\ PolicyAttached

====
